---- MODULE Spec2Model ----
(***************************************************************************)
(* FitnessJournal: a model of the fitness-cloud client (token refresh,     *)
(* retrying API calls, snapshot cache and snapshot fetch), the plan        *)
(* materializer, the workout cleanup, the REST rate limiter, the Signal    *)
(* bot and its notifier loops, the AI chat log, the strength-set           *)
(* ingestion, the profiles document, the API token check, the chat         *)
(* endpoint, the JSON block extraction, the workout payload builder, the   *)
(* exercise resolution, the progression query, the local-store mutex, the  *)
(* morning notifier on the wall clock, the conversational reply and the    *)
(* cloud's side of the materializer.                                       *)
(*                                                                         *)
(* The program runs in several modes and subsystems that share no state    *)
(* beyond what each section declares; every subsystem has its own          *)
(* specification (SpecCleanup, SpecPlan, SpecCache, SpecLimiter, SpecApi,  *)
(* SpecBot, SpecNotifier, SpecChat, SpecIngest, SpecProfiles, SpecFetch,   *)
(* SpecAuth, SpecPostChat, SpecExtract, SpecBuild, SpecResolve,            *)
(* SpecProgression, SpecStore, SpecMorning, SpecConversation, SpecCloud)   *)
(* over the one list of variables, the other subsystems standing idle;     *)
(* SpecApiLive and SpecStoreLive add the fairness of the scheduler.        *)
(***************************************************************************)
EXTENDS Integers, Sequences, FiniteSets, TLC

VARIABLES
    \* ---- workout cleanup (garmin_client.rs cleanup_ai_workouts, main.rs --delete-workouts)
    cl_mode,        \* "pipeline" (cleanup_ai_workouts) or "cli" (--delete-workouts)
    cl_pc,          \* "list" | "delete" | "done"
    cl_cloud,       \* the workouts the cloud holds: a sequence of [workoutId, workoutName]
    cl_listed,      \* what GET /workout-service/workouts returned to this run
    cl_to_delete,   \* to_delete: the (wid, name) pairs still to be deleted
    cl_deleted,     \* the workout ids a DELETE request was issued for
    \* ---- plan materialization (main.rs run_coach_pipeline 477-607, --test-upload 122-136)
    pl_mode,        \* "pipeline" or "test_upload"
    pl_pc,          \* "next" | "create" | "create_robust" | "schedule" | "clear" | "done"
    pl_workouts,    \* workouts: the parsed specs the for loop has not taken yet
    pl_spec,        \* workout_spec of the current turn of the loop
    pl_payload,     \* payload: the body of the create POST
    pl_attempt,     \* attempt of the running connectapi_post (1..max_retries)
    pl_workout_id,  \* workout_id: Option<i64>
    pl_posts,       \* the HTTP requests sent for the current workout, with the answers
    pl_count,       \* generated_count
    pl_cache_cleared, \* clear_garmin_cache was called at the end of the run
    pl_log,         \* per finished turn of the loop: "scheduled", "failed" or "created"
    pl_details,     \* scheduled_details: date and name of the workouts scheduled
    pl_broadcast,   \* the summary handed to broadcast_message, if any
    \* ---- snapshot cache (garmin_client.rs fetch_data, db.rs kv_store, api.rs force_pull_data)
    ca_is_test,     \* the process was started with --test
    ca_now,         \* the wall clock, in seconds
    ca_epoch,       \* the number of schedulings and invalidations so far
    ca_calendar,    \* the calendarItems the cloud holds
    ca_cache,       \* the garmin_cache row of kv_store, or NoRow
    ca_task,        \* per task: where it stands in its handler, and what it saw and got
    \* ---- rate limiter (api.rs SlidingWindowLimiter, trigger_generate, chat)
    lm_now,         \* Instant::now, in seconds
    lm_ticks,       \* how often the clock has advanced
    lm_calls,       \* how many requests the rate-limited routes have received
    lm_limiter,     \* per route: the SlidingWindowLimiter (max_requests, window, hits)
    lm_accepted,    \* per route: the instants of all requests accepted so far
    lm_last,        \* the last request: its route and whether the limiter allowed it
    \* ---- cloud API calls and the OAuth2 token (garmin_api.rs)
    ap_now,         \* the wall clock, in seconds
    ap_oauth2,      \* self.oauth2: the in-memory OAuth2 record
    ap_file,        \* secrets/oauth2_token.json: the record on disk and the file mode
    ap_issued,      \* how many tokens the exchange endpoint has issued
    ap_task,        \* per task: the call it runs and where it stands in it
    \* ---- Signal bot (bot.rs BotController::run)
    bt_input,       \* the family of frames this run receives: "replays" or "sync"
    bt_processed,   \* processed_msgs: the window of message ids, oldest first
    bt_frames,      \* how many frames the websocket has delivered
    bt_frame,       \* the frame the loop has just taken, or NoFrame
    bt_sent,        \* the replies sent for that frame: [recipient, handler, text]
    \* ---- notifier loops (bot.rs start_*_notifier)
    nt_loop,        \* which notifier loop this is
    nt_force,       \* config.force_monthly_debrief
    nt_pc,          \* "wake" (at the top of the loop) | "sleep"
    nt_day,         \* chrono::Local::now(): the day, an index of Calendar
    nt_time,        \* chrono::Local::now(): %H:%M
    nt_last_sent,   \* last_sent_date / last_sent_week / last_sent_month / last_notified_day
    nt_log,         \* the broadcasts so far: the day and time the loop read for each
    \* ---- AI chat log (db.rs ai_chats)
    ch_rows,        \* the rows of ai_chats: [id, role, nth] (nth: the how-manieth insert)
    ch_inserted,    \* the inserts so far, counted from the oldest row the run starts with; 0 after a clear
    ch_calls,       \* how many calls this run has made
    \* ---- strength-set ingestion (db.rs insert_activity, main.rs 275-284)
    ig_snapshot,    \* detailed_activities: the activities of the snapshot
    ig_table,       \* the rows of exercise_history
    ig_pass,        \* the how-manieth ingestion of the snapshot this is (3: both are done)
    ig_next,        \* the index of the next activity to insert
    ig_after_first, \* exercise_history as the first ingestion left it
    \* ---- profiles document (api.rs get_profiles, update_profiles, write_file_atomically)
    pf_mount,       \* how the directory of profiles.json is mounted: "plain" or "bind"
    pf_inodes,      \* the files: the content of each inode
    pf_dir,         \* the directory: the inode of profiles.json and of profiles.json.tmp, 0: none
    pf_initial,     \* the content of profiles.json before the first PUT
    pf_task,        \* per PUT /api/profiles: payload, position, open file, validated document, answer
    pf_get,         \* the last GET /api/profiles: the content it read and its answer
    \* ---- one fetch_data that asks the cloud (garmin_client.rs)
    ft_is_test,      \* the process was started with --test
    ft_cache,        \* the garmin_cache row: present, data, updated_at
    ft_pc,           \* where the call stands: "begin", "network", "save", "ret"
    ft_next,         \* the number of the next request in FetchEndpoints
    ft_failed,       \* the requests the cloud has failed so far
    ft_display_name, \* display_name of the profile answer, "" without one
    ft_response,     \* the slices of the GarminResponse filled so far
    ft_result,       \* what fetch_data has returned
    \* ---- one request through the layers of the REST server (api.rs run_server, auth_middleware)
    au_env,         \* API_AUTH_TOKEN in the environment: set, v
    au_api_auth_token, \* ApiState.api_auth_token, as an Option: some, v
    au_request,     \* the request: method, path and the two credential headers
    au_call,        \* where the request stands: pc, the answer's status, the handler that ran
    \* ---- one POST /api/chat through the body limit, the Json extractor and post_chat (api.rs)
    po_request,     \* the request: the content its JSON body carries
    po_state,       \* what the handler reads and writes: chat_limiter, gemini_api_key, coach_briefs, llm_calls
    po_call,        \* where the request stands: pc, the answer's status
    \* ---- one LLM answer handed to AiClient::extract_json_block (ai_client.rs)
    ej_input,       \* the answer: the text it was made from, how it was wrapped, the markdown
    ej_call,        \* the call: pc, the Result it returned (ok, v)
    \* ---- one PlanSpec built into both payloads (workout_builder.rs build_workout_payload)
    bw_data,        \* the PlanSpec handed to build_workout_payload
    bw_payload,     \* the payloads built so far: strict, robust (null until built)
    \* ---- calls of resolve_exercise on builders loaded from one CSV file (workout_builder.rs)
    rv_db,          \* exercise_db of the builder in use, in the order its HashMap iterates
    rv_call,        \* the name asked for, and the results of the calls so far
    \* ---- exercise_history and one progression query over it (db.rs get_progression_history_raw)
    pg_table,       \* exercise_history: the rows stored so far
    pg_result,      \* the query: asked, and the Vec<ProgressionHistoryEntry> it returned
    \* ---- local-store mutex (Arc<Mutex<Database>>: main.rs run_coach_pipeline, bot.rs handle_conversation, api.rs post_chat, garmin_client.rs fetch_data)
    mx_acts,        \* detailed_activities of the snapshot: id, start_time of today/yesterday, type
    mx_lock,        \* the tokio Mutex: owner ("none" when free) and the FIFO queue of waiters
    mx_task,        \* per task: pc, waiting (parked in lock().await), loop index i, pipeline runs, loop (daemon)
    mx_store,       \* the store: chat (ai_chats in id order), analyses (activity_analyses ids)
    mx_out,         \* what left the process: history (handed to the LLM by the bot), analysed (ids broadcast)
    \* ---- morning notifier on the clock (bot.rs start_morning_notifier)
    mn_now,         \* chrono::Local::now(), in seconds after midnight of the day
    mn_loop,        \* the loop: pc, last_sent_date, planned (the day has workouts), fetch_failed, sent (times of the broadcasts)
    \* ---- conversational reply (bot.rs BotController::handle_conversation, after the LLM call)
    cv_reply,       \* the result of chat_with_history: ok and the answer text
    cv_task,        \* the handler: pc, built (build_workout_payload calls), created (workouts created in the cloud), sent (the text returned to the user)
    \* ---- the cloud's side of one turn of the materializer loop (main.rs:516-595, garmin_api.rs connectapi_post)
    cd_call,        \* the turn: pc, attempt of the running connectapi_post, workout_id, dated (the spec has a scheduledDate)
    cd_cloud        \* the cloud: the workouts created for the spec (the payload of each: strict or robust) and the calendar entries made

cleanupVars == <<cl_mode, cl_pc, cl_cloud, cl_listed, cl_to_delete, cl_deleted>>

planVars == <<pl_mode, pl_pc, pl_workouts, pl_spec, pl_payload, pl_attempt,
              pl_workout_id, pl_posts, pl_count, pl_cache_cleared,
              pl_log, pl_details, pl_broadcast>>

cacheVars == <<ca_is_test, ca_now, ca_epoch, ca_calendar, ca_cache, ca_task>>

limiterVars == <<lm_now, lm_ticks, lm_calls, lm_limiter, lm_accepted, lm_last>>

apiVars == <<ap_now, ap_oauth2, ap_file, ap_issued, ap_task>>

botVars == <<bt_input, bt_processed, bt_frames, bt_frame, bt_sent>>

notifierVars == <<nt_loop, nt_force, nt_pc, nt_day, nt_time, nt_last_sent, nt_log>>

chatVars == <<ch_rows, ch_inserted, ch_calls>>

ingestVars == <<ig_snapshot, ig_table, ig_pass, ig_next, ig_after_first>>

profilesVars == <<pf_mount, pf_inodes, pf_dir, pf_initial, pf_task, pf_get>>

fetchVars == <<ft_is_test, ft_cache, ft_pc, ft_next, ft_failed, ft_display_name, ft_response, ft_result>>

authVars == <<au_env, au_api_auth_token, au_request, au_call>>

postChatVars == <<po_request, po_state, po_call>>

extractVars == <<ej_input, ej_call>>

buildVars == <<bw_data, bw_payload>>

resolveVars == <<rv_db, rv_call>>

progressionVars == <<pg_table, pg_result>>

storeVars == <<mx_acts, mx_lock, mx_task, mx_store, mx_out>>

morningVars == <<mn_now, mn_loop>>

conversationVars == <<cv_reply, cv_task>>

cloudVars == <<cd_call, cd_cloud>>

vars == <<cleanupVars, planVars, cacheVars, limiterVars, apiVars, botVars, notifierVars, chatVars, ingestVars, profilesVars, fetchVars, authVars, postChatVars, extractVars, buildVars, resolveVars, progressionVars, storeVars, morningVars, conversationVars, cloudVars>>

\* What the actions of one subsystem leave alone: the other subsystems.
exceptCleanup == <<planVars, cacheVars, limiterVars, apiVars, botVars, notifierVars, chatVars, ingestVars, profilesVars, fetchVars, authVars, postChatVars, extractVars, buildVars, resolveVars, progressionVars, storeVars, morningVars, conversationVars, cloudVars>>
exceptPlan == <<cleanupVars, cacheVars, limiterVars, apiVars, botVars, notifierVars, chatVars, ingestVars, profilesVars, fetchVars, authVars, postChatVars, extractVars, buildVars, resolveVars, progressionVars, storeVars, morningVars, conversationVars, cloudVars>>
exceptCache == <<cleanupVars, planVars, limiterVars, apiVars, botVars, notifierVars, chatVars, ingestVars, profilesVars, fetchVars, authVars, postChatVars, extractVars, buildVars, resolveVars, progressionVars, storeVars, morningVars, conversationVars, cloudVars>>
exceptLimiter == <<cleanupVars, planVars, cacheVars, apiVars, botVars, notifierVars, chatVars, ingestVars, profilesVars, fetchVars, authVars, postChatVars, extractVars, buildVars, resolveVars, progressionVars, storeVars, morningVars, conversationVars, cloudVars>>
exceptApi == <<cleanupVars, planVars, cacheVars, limiterVars, botVars, notifierVars, chatVars, ingestVars, profilesVars, fetchVars, authVars, postChatVars, extractVars, buildVars, resolveVars, progressionVars, storeVars, morningVars, conversationVars, cloudVars>>
exceptBot == <<cleanupVars, planVars, cacheVars, limiterVars, apiVars, notifierVars, chatVars, ingestVars, profilesVars, fetchVars, authVars, postChatVars, extractVars, buildVars, resolveVars, progressionVars, storeVars, morningVars, conversationVars, cloudVars>>
exceptNotifier == <<cleanupVars, planVars, cacheVars, limiterVars, apiVars, botVars, chatVars, ingestVars, profilesVars, fetchVars, authVars, postChatVars, extractVars, buildVars, resolveVars, progressionVars, storeVars, morningVars, conversationVars, cloudVars>>
exceptChat == <<cleanupVars, planVars, cacheVars, limiterVars, apiVars, botVars, notifierVars, ingestVars, profilesVars, fetchVars, authVars, postChatVars, extractVars, buildVars, resolveVars, progressionVars, storeVars, morningVars, conversationVars, cloudVars>>
exceptIngest == <<cleanupVars, planVars, cacheVars, limiterVars, apiVars, botVars, notifierVars, chatVars, profilesVars, fetchVars, authVars, postChatVars, extractVars, buildVars, resolveVars, progressionVars, storeVars, morningVars, conversationVars, cloudVars>>
exceptProfiles == <<cleanupVars, planVars, cacheVars, limiterVars, apiVars, botVars, notifierVars, chatVars, ingestVars, fetchVars, authVars, postChatVars, extractVars, buildVars, resolveVars, progressionVars, storeVars, morningVars, conversationVars, cloudVars>>
exceptFetch == <<cleanupVars, planVars, cacheVars, limiterVars, apiVars, botVars, notifierVars, chatVars, ingestVars, profilesVars, authVars, postChatVars, extractVars, buildVars, resolveVars, progressionVars, storeVars, morningVars, conversationVars, cloudVars>>
exceptAuth == <<cleanupVars, planVars, cacheVars, limiterVars, apiVars, botVars, notifierVars, chatVars, ingestVars, profilesVars, fetchVars, postChatVars, extractVars, buildVars, resolveVars, progressionVars, storeVars, morningVars, conversationVars, cloudVars>>
exceptPostChat == <<cleanupVars, planVars, cacheVars, limiterVars, apiVars, botVars, notifierVars, chatVars, ingestVars, profilesVars, fetchVars, authVars, extractVars, buildVars, resolveVars, progressionVars, storeVars, morningVars, conversationVars, cloudVars>>
exceptExtract == <<cleanupVars, planVars, cacheVars, limiterVars, apiVars, botVars, notifierVars, chatVars, ingestVars, profilesVars, fetchVars, authVars, postChatVars, buildVars, resolveVars, progressionVars, storeVars, morningVars, conversationVars, cloudVars>>
exceptBuild == <<cleanupVars, planVars, cacheVars, limiterVars, apiVars, botVars, notifierVars, chatVars, ingestVars, profilesVars, fetchVars, authVars, postChatVars, extractVars, resolveVars, progressionVars, storeVars, morningVars, conversationVars, cloudVars>>
exceptResolve == <<cleanupVars, planVars, cacheVars, limiterVars, apiVars, botVars, notifierVars, chatVars, ingestVars, profilesVars, fetchVars, authVars, postChatVars, extractVars, buildVars, progressionVars, storeVars, morningVars, conversationVars, cloudVars>>
exceptProgression == <<cleanupVars, planVars, cacheVars, limiterVars, apiVars, botVars, notifierVars, chatVars, ingestVars, profilesVars, fetchVars, authVars, postChatVars, extractVars, buildVars, resolveVars, storeVars, morningVars, conversationVars, cloudVars>>
exceptStore == <<cleanupVars, planVars, cacheVars, limiterVars, apiVars, botVars, notifierVars, chatVars, ingestVars, profilesVars, fetchVars, authVars, postChatVars, extractVars, buildVars, resolveVars, progressionVars, morningVars, conversationVars, cloudVars>>
exceptMorning == <<cleanupVars, planVars, cacheVars, limiterVars, apiVars, botVars, notifierVars, chatVars, ingestVars, profilesVars, fetchVars, authVars, postChatVars, extractVars, buildVars, resolveVars, progressionVars, storeVars, conversationVars, cloudVars>>
exceptConversation == <<cleanupVars, planVars, cacheVars, limiterVars, apiVars, botVars, notifierVars, chatVars, ingestVars, profilesVars, fetchVars, authVars, postChatVars, extractVars, buildVars, resolveVars, progressionVars, storeVars, morningVars, cloudVars>>
exceptCloud == <<cleanupVars, planVars, cacheVars, limiterVars, apiVars, botVars, notifierVars, chatVars, ingestVars, profilesVars, fetchVars, authVars, postChatVars, extractVars, buildVars, resolveVars, progressionVars, storeVars, morningVars, conversationVars>>

\* ------------------------------------------------------------------ values

\* Option::None / a JSON field that is absent or null.
None == "<none>"

\* str::starts_with
StartsWith(s, p) == Len(s) >= Len(p) /\ SubSeq(s, 1, Len(p)) = p

\* The marker of AI-managed workouts (spec section 6).
AI_WORKOUT_PREFIX == "FJ-AI:"

\* garmin_client::is_ai_managed_workout, called by main.rs:165.
IsAiManagedWorkout(name) == StartsWith(name, AI_WORKOUT_PREFIX)

\* The name test written out in GarminClient::cleanup_ai_workouts.
CleanupSelects(name) ==
    \/ StartsWith(name, "Strength")
    \/ StartsWith(name, "Test")
    \/ StartsWith(name, "Full Body")
    \/ StartsWith(name, "Upper")
    \/ StartsWith(name, "Lower")

\* ------------------------------------------------------------------ strings

\* The i-th character of s, as a string of length 1.
Ch(s, i) == SubSeq(s, i, i)

LowerLetters == "abcdefghijklmnopqrstuvwxyz"
UpperLetters == "ABCDEFGHIJKLMNOPQRSTUVWXYZ"
Digits == "0123456789"

\* The 1-based place of character c in alphabet, 0 when it is not in it.
IndexIn(alphabet, c) ==
    IF \E i \in 1..Len(alphabet) : Ch(alphabet, i) = c
       THEN CHOOSE i \in 1..Len(alphabet) : Ch(alphabet, i) = c
       ELSE 0

RECURSIVE MapChars(_, _, _)
\* s with every character of alphabet `from` replaced by its partner in `to`
\* (half by half: the characters are mapped one by one, in place).
MapChars(s, from, to) ==
    IF s = "" THEN ""
    ELSE IF Len(s) = 1
        THEN (IF IndexIn(from, s) = 0 THEN s ELSE Ch(to, IndexIn(from, s)))
    ELSE MapChars(SubSeq(s, 1, Len(s) \div 2), from, to)
         \o MapChars(SubSeq(s, Len(s) \div 2 + 1, Len(s)), from, to)

\* str::to_uppercase / str::to_lowercase (ASCII letters).
ToUpper(s) == MapChars(s, LowerLetters, UpperLetters)
ToLower(s) == MapChars(s, UpperLetters, LowerLetters)

RECURSIVE Replace(_, _, _)
\* str::replace for a pattern of one character (half by half).
Replace(s, c, by) ==
    IF s = "" THEN ""
    ELSE IF Len(s) = 1 THEN (IF s = c THEN by ELSE s)
    ELSE Replace(SubSeq(s, 1, Len(s) \div 2), c, by)
         \o Replace(SubSeq(s, Len(s) \div 2 + 1, Len(s)), c, by)

IsSpace(c) == c \in {" ", "\n", "\t"}

RECURSIVE TrimStart(_)
TrimStart(s) ==
    IF s # "" /\ IsSpace(Ch(s, 1)) THEN TrimStart(SubSeq(s, 2, Len(s))) ELSE s

RECURSIVE TrimEnd(_)
TrimEnd(s) ==
    IF s # "" /\ IsSpace(Ch(s, Len(s))) THEN TrimEnd(SubSeq(s, 1, Len(s) - 1)) ELSE s

\* str::trim
Trim(s) == TrimEnd(TrimStart(s))

\* str::contains
Contains(s, sub) ==
    \E i \in 1..(Len(s) - Len(sub) + 1) : SubSeq(s, i, i + Len(sub) - 1) = sub

IsDigit(c) == IndexIn(Digits, c) # 0

RECURSIVE DigitsValue(_, _)
\* The value of the run of digits that starts s, continuing the value acc.
DigitsValue(s, acc) ==
    IF s # "" /\ IsDigit(Ch(s, 1))
       THEN DigitsValue(SubSeq(s, 2, Len(s)), 10 * acc + IndexIn(Digits, Ch(s, 1)) - 1)
       ELSE acc

\* Regex \d+ : the place of the first digit of s, 0 when s holds none.
FirstDigitAt(s) ==
    IF \E i \in 1..Len(s) : IsDigit(Ch(s, i))
       THEN CHOOSE i \in 1..Len(s) :
                IsDigit(Ch(s, i)) /\ \A j \in 1..(i - 1) : ~IsDigit(Ch(s, j))
       ELSE 0

RECURSIVE NatToStr(_)
\* Display of a non-negative integer.
NatToStr(n) ==
    IF n < 10 THEN Ch(Digits, n + 1)
    ELSE NatToStr(n \div 10) \o Ch(Digits, (n % 10) + 1)

RECURSIVE LevRow(_, _, _, _)
\* One row of the edit-distance table: cur continues the row of character c of
\* the first string, prev is the row before it.
LevRow(prev, c, b, cur) ==
    IF Len(cur) = Len(b) + 1 THEN cur
    ELSE LET j == Len(cur)
             sub == prev[j] + (IF c = Ch(b, j) THEN 0 ELSE 1)
             del == prev[j + 1] + 1
             ins == cur[j] + 1
             m1 == IF del < ins THEN del ELSE ins
         IN  LevRow(prev, c, b, Append(cur, IF sub < m1 THEN sub ELSE m1))

RECURSIVE LevRows(_, _, _, _)
\* The rows of the table in turn, each complete (as long as the row before it)
\* before the next one starts; the distance is the last cell of the last row.
LevRows(a, b, i, prev) ==
    IF i > Len(a) THEN prev[Len(b) + 1]
    ELSE LET cur == LevRow(prev, Ch(a, i), b, <<i>>)
         IN  IF Len(cur) = Len(prev) THEN LevRows(a, b, i + 1, cur) ELSE -1

\* strsim::levenshtein
Levenshtein(a, b) == LevRows(a, b, 1, [j \in 1..(Len(b) + 1) |-> j - 1])

\* ------------------------------------------------------------------ JSON

\* serde_json::Value, tagged: null, an integer, a float (in tenths), a string,
\* an array (a sequence of values), an object (a function from keys to values).
JNull == [t |-> "null", v |-> 0]
JInt(n) == [t |-> "int", v |-> n]
JFloat(tenths) == [t |-> "float", v |-> tenths]
JStr(s) == [t |-> "str", v |-> s]
JArr(xs) == [t |-> "arr", v |-> xs]
JObj(f) == [t |-> "obj", v |-> f]
\* Value::get of a key the object does not hold (Option::None).
JAbsent == [t |-> "absent", v |-> 0]

\* Value::get(key)
Get(data, key) ==
    IF data.t = "obj" /\ key \in DOMAIN data.v THEN data.v[key] ELSE JAbsent

\* Option<&Value>::and_then(Value::as_str): the string, or None.
AsStr(x) == IF x.t = "str" THEN x.v ELSE None

\* Value::as_i64 is Some
IsI64(x) == x.t = "int"

\* Option::is_some of Value::get
IsSome(x) == x.t # "absent"

\* An Option of a number: Some(v) or NoneNum.
Some(x) == [some |-> TRUE, v |-> x]
NoneNum == [some |-> FALSE, v |-> 0]

\* str::parse::<i64>: an optional sign, then digits only.
ParseI64(s) ==
    LET body == IF s # "" /\ Ch(s, 1) \in {"-", "+"} THEN SubSeq(s, 2, Len(s)) ELSE s
        neg == s # "" /\ Ch(s, 1) = "-"
    IN  IF body # "" /\ \A i \in 1..Len(body) : IsDigit(Ch(body, i))
           THEN Some(IF neg THEN 0 - DigitsValue(body, 0) ELSE DigitsValue(body, 0))
           ELSE NoneNum

\* --------------------------------------------------- workout_builder.rs

SPORT_TYPE_ID_STRENGTH == 5
STEP_TYPE_ID_WARMUP == 1
STEP_TYPE_ID_COOLDOWN == 2
STEP_TYPE_ID_INTERVAL == 3
STEP_TYPE_ID_REST == 5
CONDITION_ID_REPS == 10
CONDITION_ID_TIME == 2
CONDITION_ID_LAP_BUTTON == 1
TARGET_ID_NO_TARGET == 1
UNIT_ID_KILOGRAM == 8

\* MANUAL_OVERRIDES: name |-> (category, exercise)
MANUAL_OVERRIDES ==
    [k \in {"BENT_OVER_ROW", "TRICEPS_EXTENSION", "PULL_UP", "PUSH_UP", "LUNGE",
            "SQUAT", "DEADLIFT", "BENCH_PRESS", "YOGA", "STRETCHING",
            "OVERHEAD_PRESS", "SHOULDER_PRESS", "PLANK", "LAT_PULLDOWN",
            "RUSSIAN_TWIST", "DUMBBELL_ROW", "BICEP_CURL", "LUNGES",
            "GOBLET_SQUAT", "FACE_PULL", "LATERAL_RAISE", "CALF_RAISE"} |->
        CASE k = "BENT_OVER_ROW" -> <<"ROW", "BARBELL_ROW">>
          [] k = "TRICEPS_EXTENSION" -> <<"TRICEPS_EXTENSION", "TRICEP_EXTENSION">>
          [] k = "PULL_UP" -> <<"PULL_UP", "CHIN_UP">>
          [] k = "YOGA" -> <<"WARM_UP", "STRETCH_SIDE">>
          [] k = "STRETCHING" -> <<"WARM_UP", "STRETCH_SIDE">>
          [] k = "OVERHEAD_PRESS" -> <<"SHOULDER_PRESS", "SHOULDER_PRESS">>
          [] k = "LAT_PULLDOWN" -> <<"PULL_UP", "CLOSE_GRIP_LAT_PULLDOWN">>
          [] k = "RUSSIAN_TWIST" -> <<"CORE", "RUSSIAN_TWIST">>
          [] k = "DUMBBELL_ROW" -> <<"ROW", "BENT_OVER_ROW_WITH_DUMBELL">>
          [] k = "BICEP_CURL" -> <<"CURL", "STANDING_ALTERNATING_DUMBBELL_CURLS">>
          [] k = "LUNGES" -> <<"LUNGE", "ALTERNATING_DUMBBELL_LUNGE">>
          [] k = "GOBLET_SQUAT" -> <<"SQUAT", "GOBLET_SQUAT">>
          [] k = "FACE_PULL" -> <<"ROW", "FACE_PULL">>
          [] OTHER -> <<k, k>>]

\* HashMap::insert on a map kept as a sequence of [key, val] entries: the value
\* of a key already held is replaced, a new key is added.
DbInsert(db, key, val) ==
    IF \E i \in 1..Len(db) : db[i].key = key
       THEN [i \in 1..Len(db) |-> IF db[i].key = key THEN [key |-> key, val |-> val] ELSE db[i]]
       ELSE Append(db, [key |-> key, val |-> val])

\* HashMap::get: the value of key, or None.
DbGet(db, key) ==
    IF \E i \in 1..Len(db) : db[i].key = key
       THEN (CHOOSE e \in {db[i] : i \in 1..Len(db)} : e.key = key).val
       ELSE None

\* The six keyings load_exercise_db inserts for one CSV row (name, category, id).
DbInsertRow(db, row) ==
    LET human_name == ToUpper(Trim(row[1]))
        cat_key == Trim(row[2])
        ex_key == Trim(row[3])
        val == <<cat_key, ex_key>>
        d1 == DbInsert(db, human_name, val)
        d2 == DbInsert(d1, ex_key, val)
        d3 == DbInsert(d2, Replace(human_name, " ", "_"), val)
        d4 == DbInsert(d3, Replace(ex_key, "_", " "), val)
        d5 == DbInsert(d4, Replace(Replace(Replace(human_name, "-", ""), " ", ""), "_", ""), val)
        d6 == DbInsert(d5, Replace(Replace(ex_key, "_", ""), "-", ""), val)
    IN  IF human_name # "" /\ cat_key # "" /\ ex_key # "" THEN d6 ELSE db

RECURSIVE LoadExerciseDb(_, _)
\* WorkoutBuilder::load_exercise_db over the data rows of the CSV file.
LoadExerciseDb(db, rows) ==
    IF rows = <<>> THEN db
    ELSE LoadExerciseDb(DbInsertRow(db, Head(rows)), Tail(rows))

\* The data rows of the exercise CSV file (NAME, CATEGORY_GARMIN, NAME_GARMIN).
ExerciseRows ==
    << <<"Burpee", "TOTAL_BODY", "BURPEE">>,
       <<"Box Jump", "PLYO", "BOX_JUMP">> >>

\* WorkoutBuilder::new: exercise_db
exercise_db == LoadExerciseDb(<<>>, ExerciseRows)

RECURSIVE FuzzyBest(_, _, _, _, _)
\* C29, mutant of FuzzyBest: the threshold is below 3, a key at distance 3 is not kept.
FuzzyBest_BelowThree(clean, db, i, best_match, best_distance) ==
    IF i > Len(db) THEN best_match
    ELSE LET distance == Levenshtein(clean, db[i].key)
         IN  IF (best_distance < 0 \/ distance < best_distance) /\ distance < 3
                THEN FuzzyBest(clean, db, i + 1, db[i].key, distance)
                ELSE FuzzyBest(clean, db, i + 1, best_match, best_distance)

\* The fuzzy loop of resolve_exercise over the keys in iteration order: the
\* first key at a distance below the best so far, and at most 3, is kept.
FuzzyBest(clean, db, i, best_match, best_distance) ==
    IF i > Len(db) THEN best_match
    ELSE LET distance == Levenshtein(clean, db[i].key)
         IN  IF (best_distance < 0 \/ distance < best_distance) /\ distance <= 3
                THEN FuzzyBest(clean, db, i + 1, db[i].key, distance)
                ELSE FuzzyBest(clean, db, i + 1, best_match, best_distance)

\* The lookups of resolve_exercise in their order, for the cleaned name, its
\* normalized form and the best fuzzy match.
ResolveClean(db, clean, norm_input, best) ==
    IF clean \in DOMAIN MANUAL_OVERRIDES THEN MANUAL_OVERRIDES[clean]
    ELSE IF DbGet(db, clean) # None THEN DbGet(db, clean)
    ELSE IF DbGet(db, norm_input) # None THEN DbGet(db, norm_input)
    ELSE IF Contains(clean, "_") THEN <<clean, clean>>
    ELSE IF best # None THEN DbGet(db, best)
    ELSE <<None, None>>

\* The normalized form of a cleaned name: no "_", " " or "-".
NormInput(clean) == Replace(Replace(Replace(clean, "_", ""), " ", ""), "-", "")

\* resolve_exercise once the name is trimmed and upper-cased.
ResolveCleaned(db, clean) ==
    ResolveClean(db, clean, NormInput(clean), FuzzyBest(clean, db, 1, None, -1))

\* The exercise names the plan steps of this model carry.
ExerciseNames == {"ROW", "BENCH_PRESS", "Goblet squat", "YOGA"}

\* resolve_exercise over exercise_db, tabulated for these names as pairs
\* <<name, <<category, exercise>>>>: the answer depends on the name alone.
ResolvedNames ==
    {<<name, ResolveCleaned(exercise_db, ToUpper(Trim(name)))>> : name \in ExerciseNames}

\* WorkoutBuilder::resolve_exercise: <<category, exercise>>, or <<None, None>>.
ResolveExercise(db, name) ==
    IF db = exercise_db /\ name \in ExerciseNames
       THEN (CHOOSE e \in ResolvedNames : e[1] = name)[2]
       ELSE ResolveCleaned(db, ToUpper(Trim(name)))

\* C27, mutant of ParseDuration: a text in minutes is not multiplied by 60.
ParseDuration_NoMinutes(val) ==
    IF val.t = "int" THEN Some(val.v)
    ELSE IF val.t = "str" /\ FirstDigitAt(val.v) # 0
        THEN Some(DigitsValue(SubSeq(val.v, FirstDigitAt(val.v), Len(val.v)), 0))
    ELSE NoneNum

\* WorkoutBuilder::parse_duration: seconds, as an Option.
ParseDuration(val) ==
    IF val.t = "int" THEN Some(val.v)
    ELSE IF val.t = "str" /\ FirstDigitAt(val.v) # 0
        THEN LET parsed == DigitsValue(SubSeq(val.v, FirstDigitAt(val.v), Len(val.v)), 0)
             IN  IF Contains(ToLower(val.v), "min") THEN Some(parsed * 60) ELSE Some(parsed)
    ELSE NoneNum

\* The first run of digits and dots of s (regex [\d\.]+), "" when there is none.
NumberRun(s) ==
    LET isNum(c) == IsDigit(c) \/ c = "."
    IN  IF \E i \in 1..Len(s) : isNum(Ch(s, i))
           THEN LET a == CHOOSE i \in 1..Len(s) :
                            isNum(Ch(s, i)) /\ \A j \in 1..(i - 1) : ~isNum(Ch(s, j))
                    b == CHOOSE k \in a..Len(s) :
                            /\ \A j \in a..k : isNum(Ch(s, j))
                            /\ (k = Len(s) \/ ~isNum(Ch(s, k + 1)))
                IN  SubSeq(s, a, b)
           ELSE ""

\* str::parse::<f64> of a run of digits and dots, in tenths (one decimal kept).
ParseTenths(run) ==
    LET dots == {i \in 1..Len(run) : Ch(run, i) = "."}
        dot == IF dots = {} THEN Len(run) + 1 ELSE CHOOSE i \in dots : TRUE
        int_part == SubSeq(run, 1, dot - 1)
        frac_part == SubSeq(run, dot + 1, Len(run))
    IN  IF Cardinality(dots) > 1 \/ (int_part = "" /\ frac_part = "")
           THEN NoneNum
           ELSE Some(10 * DigitsValue(int_part, 0)
                     + (IF frac_part = "" THEN 0 ELSE DigitsValue(Ch(frac_part, 1), 0)))

\* WorkoutBuilder::parse_weight: kilograms in tenths, as an Option.
ParseWeight(val) ==
    IF val.t = "int" THEN Some(10 * val.v)
    ELSE IF val.t = "float" THEN Some(val.v)
    ELSE IF val.t = "str" /\ NumberRun(val.v) # "" THEN ParseTenths(NumberRun(val.v))
    ELSE NoneNum

\* Display of an f64 given in tenths: 825 is "82.5", 800 is "80".
FormatTenths(w) ==
    IF w % 10 = 0 THEN NatToStr(w \div 10)
    ELSE NatToStr(w \div 10) \o "." \o NatToStr(w % 10)

\* The stepType object of a step type id.
StepTypeOf(phase) ==
    IF phase \in {"warmup", "warm_up"} THEN STEP_TYPE_ID_WARMUP
    ELSE IF phase \in {"cooldown", "cool_down", "stretching"} THEN STEP_TYPE_ID_COOLDOWN
    ELSE STEP_TYPE_ID_INTERVAL

StepTypeKey(step_type_id) ==
    IF step_type_id = STEP_TYPE_ID_WARMUP THEN "warmup"
    ELSE IF step_type_id = STEP_TYPE_ID_COOLDOWN THEN "cooldown"
    ELSE "interval"

\* The end condition of a step: [id, key, val] with val an Option.
EndCondition(step, step_type_id) ==
    LET reps == Get(step, "reps")
        duration == IF IsSome(Get(step, "time")) THEN Get(step, "time")
                    ELSE Get(step, "duration")
        lap == [id |-> CONDITION_ID_LAP_BUTTON, key |-> "lap.button", val |-> NoneNum]
        byReps(n) == [id |-> CONDITION_ID_REPS, key |-> "reps", val |-> Some(n)]
    IN  IF /\ IsSome(reps)
           /\ step_type_id # STEP_TYPE_ID_WARMUP
           /\ step_type_id # STEP_TYPE_ID_COOLDOWN
           THEN IF reps.t = "str"
                   THEN IF Contains(ToUpper(reps.v), "AMRAP") THEN lap
                        ELSE IF ParseI64(reps.v).some THEN byReps(ParseI64(reps.v).v)
                        ELSE lap
                ELSE IF IsI64(reps) THEN byReps(reps.v)
                ELSE lap
        ELSE IF IsSome(duration) /\ ParseDuration(duration).some
           THEN [id |-> CONDITION_ID_TIME, key |-> "time",
                 val |-> Some(ParseDuration(duration).v)]
        ELSE lap

\* json!(Option<String>) and json!(Option<i64>)
JOptStr(x) == IF x = None THEN JNull ELSE JStr(x)
JOptInt(o) == IF o.some THEN JInt(o.v) ELSE JNull

\* raw_name, phase, note and weight_val of a plan step.
RawName(step) ==
    IF AsStr(Get(step, "exercise")) = None THEN "BENCH_PRESS"
    ELSE AsStr(Get(step, "exercise"))
Phase(step) ==
    IF AsStr(Get(step, "phase")) = None THEN "interval"
    ELSE ToLower(AsStr(Get(step, "phase")))
Note(step) == IF AsStr(Get(step, "note")) = None THEN "" ELSE AsStr(Get(step, "note"))
WeightVal(step) ==
    IF IsSome(Get(step, "weight")) THEN ParseWeight(Get(step, "weight")) ELSE NoneNum

\* <<cat_key, ex_key>> after the fallback for an unresolved name.
ResolvedKeys(resolved, raw_name) ==
    IF resolved[1] = None
       THEN <<Replace(ToUpper(raw_name), " ", "_"), Replace(ToUpper(raw_name), " ", "_")>>
       ELSE resolved

\* C7, mutant of StepDescription: the robust description is the note alone.
StepDescription_NoteOnly(robust, raw_name, ex_key, note, weight_val) ==
    IF note = "" THEN None ELSE note

\* description: the note, or in robust mode the text that names the exercise.
StepDescription(robust, raw_name, ex_key, note, weight_val) ==
    IF robust
       THEN Trim("Exercise: " \o raw_name \o " ("
                 \o (IF ex_key = None THEN "" ELSE ex_key) \o "). " \o note
                 \o (IF weight_val.some
                        THEN " Target: " \o FormatTenths(weight_val.v) \o "kg"
                        ELSE ""))
       ELSE IF note = "" THEN None ELSE note

\* weightValue and weightUnit, inserted in strict mode when a weight parsed.
WeightFields(weight_val) ==
    ("weightValue" :> JFloat(weight_val.v))
    @@ ("weightUnit" :> JObj(("unitId" :> JInt(UNIT_ID_KILOGRAM))
                            @@ ("unitKey" :> JStr("kilogram"))
                            @@ ("factor" :> JFloat(10000))))

\* C24, mutant of StepDict: the robust step loses its endConditionValue.
StepDict_RobustDropsEndValue(robust, order, step_type_id, keys, end, weight_val, description) ==
    JObj((IF weight_val.some /\ ~robust THEN WeightFields(weight_val) ELSE <<>>)
         @@ ("type" :> JStr("ExecutableStepDTO"))
         @@ ("stepOrder" :> JInt(order))
         @@ ("stepType" :> JObj(("stepTypeId" :> JInt(step_type_id))
                                @@ ("stepTypeKey" :> JStr(StepTypeKey(step_type_id)))))
         @@ ("childStepId" :> JNull)
         @@ ("description" :> JOptStr(description))
         @@ ("endCondition" :> JObj(("conditionTypeId" :> JInt(end.id))
                                   @@ ("conditionTypeKey" :> JStr(end.key))))
         @@ ("endConditionValue" :> (IF robust THEN JNull ELSE JOptInt(end.val)))
         @@ ("targetType" :> JObj(("workoutTargetTypeId" :> JInt(TARGET_ID_NO_TARGET))
                                 @@ ("workoutTargetTypeKey" :> JStr("no.target"))))
         @@ ("category" :> (IF robust THEN JNull ELSE JOptStr(keys[1])))
         @@ ("exerciseName" :> (IF robust THEN JNull ELSE JOptStr(keys[2]))))

\* step_dict
StepDict(robust, order, step_type_id, keys, end, weight_val, description) ==
    JObj((IF weight_val.some /\ ~robust THEN WeightFields(weight_val) ELSE <<>>)
         @@ ("type" :> JStr("ExecutableStepDTO"))
         @@ ("stepOrder" :> JInt(order))
         @@ ("stepType" :> JObj(("stepTypeId" :> JInt(step_type_id))
                                @@ ("stepTypeKey" :> JStr(StepTypeKey(step_type_id)))))
         @@ ("childStepId" :> JNull)
         @@ ("description" :> JOptStr(description))
         @@ ("endCondition" :> JObj(("conditionTypeId" :> JInt(end.id))
                                   @@ ("conditionTypeKey" :> JStr(end.key))))
         @@ ("endConditionValue" :> JOptInt(end.val))
         @@ ("targetType" :> JObj(("workoutTargetTypeId" :> JInt(TARGET_ID_NO_TARGET))
                                 @@ ("workoutTargetTypeKey" :> JStr("no.target"))))
         @@ ("category" :> (IF robust THEN JNull ELSE JOptStr(keys[1])))
         @@ ("exerciseName" :> (IF robust THEN JNull ELSE JOptStr(keys[2]))))

\* The step built from the values read off the plan step.
ExerciseStepOf(robust, order, raw_name, step_type_id, keys, end, weight_val, note) ==
    StepDict(robust, order, step_type_id, keys, end, weight_val,
             StepDescription(robust, raw_name, keys[2], note, weight_val))

\* The ExecutableStepDTO of one plan step (workout_builder.rs:251-385).
ExerciseStep(db, step, robust, order) ==
    ExerciseStepOf(robust, order, RawName(step), StepTypeOf(Phase(step)),
                   ResolvedKeys(ResolveExercise(db, RawName(step)), RawName(step)),
                   EndCondition(step, StepTypeOf(Phase(step))),
                   WeightVal(step), Note(step))

\* The REST step appended after an interval step whose rest parses as seconds.
RestStep(rest_sec, order) ==
    JObj(("type" :> JStr("ExecutableStepDTO"))
         @@ ("stepOrder" :> JInt(order))
         @@ ("stepType" :> JObj(("stepTypeId" :> JInt(STEP_TYPE_ID_REST))
                                @@ ("stepTypeKey" :> JStr("rest"))))
         @@ ("childStepId" :> JNull)
         @@ ("endCondition" :> JObj(("conditionTypeId" :> JInt(CONDITION_ID_TIME))
                                   @@ ("conditionTypeKey" :> JStr("time"))))
         @@ ("endConditionValue" :> JInt(rest_sec))
         @@ ("targetType" :> JObj(("workoutTargetTypeId" :> JInt(TARGET_ID_NO_TARGET))
                                 @@ ("workoutTargetTypeKey" :> JStr("no.target")))))

RECURSIVE StepsPayload(_, _, _, _, _)
RECURSIVE StepsPush(_, _, _, _, _, _)
\* The loop over data.steps: steps_payload, with `order` the next stepOrder.
StepsPayload(db, steps, robust, order, out) ==
    IF steps = <<>> THEN out
    ELSE StepsPush(db, steps, robust, order, out,
                   ExerciseStep(db, Head(steps), robust, order))

\* C25, mutant of StepsPush: `order` is not advanced past the REST step.
StepsPush_RestSharesOrder(db, steps, robust, order, out, dto) ==
    LET rest == IF /\ dto.v["stepType"].v["stepTypeId"].v = STEP_TYPE_ID_INTERVAL
                   /\ IsSome(Get(Head(steps), "rest"))
                   THEN ParseDuration(Get(Head(steps), "rest"))
                   ELSE NoneNum
    IN  IF rest.some
           THEN StepsPayload(db, Tail(steps), robust, order + 1,
                             out \o <<dto, RestStep(rest.v, order + 1)>>)
           ELSE StepsPayload(db, Tail(steps), robust, order + 1, out \o <<dto>>)

\* C26, mutant of StepsPush: the REST step follows a step of any type.
StepsPush_RestAfterAnyStep(db, steps, robust, order, out, dto) ==
    LET rest == IF IsSome(Get(Head(steps), "rest"))
                   THEN ParseDuration(Get(Head(steps), "rest"))
                   ELSE NoneNum
    IN  IF rest.some
           THEN StepsPayload(db, Tail(steps), robust, order + 2,
                             out \o <<dto, RestStep(rest.v, order + 1)>>)
           ELSE StepsPayload(db, Tail(steps), robust, order + 1, out \o <<dto>>)

\* One turn of the loop: the step dto is pushed, and after an interval step
\* whose rest parses as seconds a REST step.
StepsPush(db, steps, robust, order, out, dto) ==
    LET rest == IF /\ dto.v["stepType"].v["stepTypeId"].v = STEP_TYPE_ID_INTERVAL
                   /\ IsSome(Get(Head(steps), "rest"))
                   THEN ParseDuration(Get(Head(steps), "rest"))
                   ELSE NoneNum
    IN  IF rest.some
           THEN StepsPayload(db, Tail(steps), robust, order + 2,
                             out \o <<dto, RestStep(rest.v, order + 1)>>)
           ELSE StepsPayload(db, Tail(steps), robust, order + 1, out \o <<dto>>)

\* WorkoutBuilder::build_workout_payload
BuildWorkoutPayload(db, data, robust) ==
    LET steps == IF Get(data, "steps").t = "arr" THEN Get(data, "steps").v ELSE <<>>
        workout_name == IF AsStr(Get(data, "workoutName")) = None
                           THEN "Imported Strength Workout"
                           ELSE AsStr(Get(data, "workoutName"))
        sport == JObj(("sportTypeId" :> JInt(SPORT_TYPE_ID_STRENGTH))
                      @@ ("sportTypeKey" :> JStr("strength_training")))
    IN  JObj(("workoutName" :> JStr(workout_name))
             @@ ("description" :> JOptStr(AsStr(Get(data, "description"))))
             @@ ("sportType" :> sport)
             @@ ("workoutSegments" :>
                    JArr(<<JObj(("segmentOrder" :> JInt(1))
                                @@ ("sportType" :> sport)
                                @@ ("workoutSteps" :>
                                       JArr(StepsPayload(db, steps, robust, 1, <<>>))))>>)))

\* The workoutSteps of a payload.
WorkoutSteps(payload) == payload.v["workoutSegments"].v[1].v["workoutSteps"].v

\* ------------------------------------------------------------------ bounds

\* The most workouts the cloud holds when a cleanup starts.
MaxCloudWorkouts == 3

\* The most plan specs one LLM reply holds.
MaxPlanWorkouts == 2

\* ============================================================= idle states

\* The plan materializer before it runs.
\* No summary was handed to broadcast_message.
NoBroadcast == [sent |-> FALSE, count |-> 0, details |-> <<>>]

PlanIdle ==
    /\ pl_mode = "pipeline"
    /\ pl_pc = "next"
    /\ pl_workouts = <<>>
    /\ pl_spec = JNull
    /\ pl_payload = JNull
    /\ pl_attempt = 1
    /\ pl_workout_id = NoneNum
    /\ pl_posts = <<>>
    /\ pl_count = 0
    /\ pl_cache_cleared = FALSE
    /\ pl_log = <<>>
    /\ pl_details = <<>>
    /\ pl_broadcast = NoBroadcast

\* The tasks that call fetch_data: a reader (an API handler, the bot, a
\* notifier), the force-pull handler and the coach pipeline.
CacheTasks == {"reader", "force", "pipe"}

\* The garmin_cache row: the JSON text (as the value it parses to), updated_at,
\* and the epoch in which the snapshot it holds was read from the cloud.
NoRow == [present |-> FALSE, data |-> JNull, updated_at |-> 0, read_at |-> 0]
Row(data, updated_at, read_at) ==
    [present |-> TRUE, data |-> data, updated_at |-> updated_at, read_at |-> read_at]

\* A task that has not started.
IdleTask ==
    [pc |-> "idle", start_at |-> 0, requests |-> 0, response |-> JNull, read_at |-> 0,
     scheduled |-> 0, scheduled_at |-> 0, inval_at |-> 0]

\* The snapshot cache while another subsystem runs.
CacheIdle ==
    /\ ca_is_test = FALSE
    /\ ca_now = 0
    /\ ca_epoch = 0
    /\ ca_calendar = <<>>
    /\ ca_cache = NoRow
    /\ ca_task = [t \in CacheTasks |-> IdleTask]

\* The rate-limited routes.
LimitedRoutes == {"/api/generate", "/api/chat"}

\* SlidingWindowLimiter::new
NewLimiter(max_requests, window) ==
    [max_requests |-> max_requests, window |-> window, hits |-> <<>>]

\* The limiters while another subsystem runs.
LimiterIdle ==
    /\ lm_now = 0
    /\ lm_ticks = 0
    /\ lm_calls = 0
    /\ lm_limiter = [r \in LimitedRoutes |-> NewLimiter(0, 0)]
    /\ lm_accepted = [r \in LimitedRoutes |-> <<>>]
    /\ lm_last = [route |-> None, allowed |-> FALSE]

\* The tasks that call the cloud API at the same time.
ApiTasks == {"a", "b"}

\* An OAuth2Token: the access token (its number of issue) and expires_at.
OAuth2Token(access_token, expires_at) ==
    [access_token |-> access_token, expires_at |-> expires_at]

\* A task before its call, running `kind`.
NewApiTask(kind) ==
    [kind |-> kind, pc |-> "top", attempt |-> 1, requests |-> 0, exchanges |-> 0,
     answers |-> <<>>, slept |-> <<>>, swapped |-> FALSE, refresh_failed |-> FALSE,
     result |-> [ok |-> FALSE, value |-> JAbsent, err |-> "<pending>"]]

\* The API client while another subsystem runs.
ApiIdle ==
    /\ ap_now = 0
    /\ ap_oauth2 = OAuth2Token(0, NoneNum)
    /\ ap_file = [content |-> OAuth2Token(0, NoneNum), mode |-> "0600"]
    /\ ap_issued = 0
    /\ ap_task = [t \in ApiTasks |-> NewApiTask("GET")]

\* A sentMessage without any of the fields the loop reads: as good as none.
NoSent == [message |-> None, destination |-> None, destinationNumber |-> None,
           destinationUuid |-> None]

\* No frame taken yet.
NoFrame ==
    [envelope |-> FALSE, account |-> None, source |-> None, sourceNumber |-> None,
     sourceUuid |-> None, timestamp |-> NoneNum, data |-> None, sync |-> NoSent]

\* The bot before its websocket delivers a frame.
BotIdle ==
    /\ bt_input = "replays"
    /\ bt_processed = <<>>
    /\ bt_frames = 0
    /\ bt_frame = NoFrame
    /\ bt_sent = <<>>

\* The notifier loops before they are spawned.
NotifierIdle ==
    /\ nt_loop = "morning"
    /\ nt_force = FALSE
    /\ nt_pc = "sleep"
    /\ nt_day = 1
    /\ nt_time = "12:00"
    /\ nt_last_sent = ""
    /\ nt_log = <<>>

\* The chat log while another subsystem runs.
ChatIdle ==
    /\ ch_rows = {}
    /\ ch_inserted = 0
    /\ ch_calls = 0

\* The ingestion while another subsystem runs.
IngestIdle ==
    /\ ig_snapshot = <<>>
    /\ ig_table = {}
    /\ ig_pass = 1
    /\ ig_next = 1
    /\ ig_after_first = {}

\* A file content: "doc" (a serialized document), "empty" (no bytes), or
\* "garbage" (bytes that do not parse).
NoDoc == [active_profile |-> "", profiles |-> {}]
Content(kind, doc) == [kind |-> kind, doc |-> doc]

\* A PUT that has nothing to do.
NoPut ==
    [payload |-> NoDoc, parsed |-> TRUE, pc |-> "done", fd |-> 0,
     doc |-> NoDoc, status |-> 0]
NoGet == [read |-> Content("empty", NoDoc), status |-> 0, doc |-> NoDoc]

\* The profiles document while another subsystem runs.
ProfilesIdle ==
    /\ pf_mount = "plain"
    /\ pf_inodes = <<>>
    /\ pf_dir = [profiles |-> 0, tmp |-> 0]
    /\ pf_initial = Content("empty", NoDoc)
    /\ pf_task = [t \in {"p", "q"} |-> NoPut]
    /\ pf_get = NoGet

\* The recovery metrics fetch_data starts from.
NoRecovery ==
    [sleep_score |-> NoneNum, current_body_battery |-> NoneNum,
     training_readiness |-> NoneNum, hrv_status |-> None,
     hrv_weekly_avg |-> NoneNum, hrv_last_night_avg |-> NoneNum,
     rhr_trend |-> <<>>]
\* The response before any request was answered.
EmptyResponse ==
    [activities |-> <<>>, plans |-> <<>>, user_profile |-> JNull,
     max_metrics |-> JNull, scheduled_workouts |-> <<>>,
     recovery_metrics |-> NoRecovery]
NoSnapshotRow == [present |-> FALSE, data |-> JNull, updated_at |-> 0]
NoResult == [returned |-> FALSE, ok |-> FALSE, response |-> EmptyResponse]

\* The snapshot fetch while another subsystem runs.
FetchIdle ==
    /\ ft_is_test = FALSE
    /\ ft_cache = NoSnapshotRow
    /\ ft_pc = "ret"
    /\ ft_next = 1
    /\ ft_failed = {}
    /\ ft_display_name = ""
    /\ ft_response = EmptyResponse
    /\ ft_result = NoResult

\* A header of a request: absent, or the text of its first value; visible is
\* what HeaderValue::to_str tests (visible ASCII only).
NoHeader == [present |-> FALSE, text |-> "", visible |-> TRUE]
HeaderValue(text) == [present |-> TRUE, text |-> text, visible |-> TRUE]
OpaqueHeaderValue(text) == [present |-> TRUE, text |-> text, visible |-> FALSE]

\* An Option<String>.
NoString == [some |-> FALSE, v |-> ""]
SomeString(s) == [some |-> TRUE, v |-> s]

\* The REST server while another subsystem runs.
AuthIdle ==
    /\ au_env = [set |-> FALSE, v |-> ""]
    /\ au_api_auth_token = NoString
    /\ au_request = [method |-> "GET", path |-> "/", x_api_token |-> NoHeader,
                     authorization |-> NoHeader]
    /\ au_call = [pc |-> "done", status |-> 0, handler |-> None]

\* POST /api/chat while another subsystem runs.
PostChatIdle ==
    /\ po_request = [content |-> "", log_at_arrival |-> <<>>]
    /\ po_state = [chat_limiter |-> NewLimiter(0, 0), gemini_api_key |-> FALSE,
                   coach_briefs |-> <<>>, llm_calls |-> 0]
    /\ po_call = [pc |-> "done", status |-> 0]

\* extract_json_block while another subsystem runs.
ExtractIdle ==
    /\ ej_input = [text |-> "", format |-> "raw", markdown |-> ""]
    /\ ej_call = [pc |-> "done", result |-> [ok |-> FALSE, v |-> ""]]

\* The payload builder while another subsystem runs.
BuildIdle ==
    /\ bw_data = JNull
    /\ bw_payload = [strict |-> JNull, robust |-> JNull]

\* The resolver while another subsystem runs.
ResolveIdle ==
    /\ rv_db = <<>>
    /\ rv_call = [name |-> "", results |-> <<>>]

\* The progression query while another subsystem runs.
ProgressionIdle ==
    /\ pg_table = {}
    /\ pg_result = [asked |-> TRUE, entries |-> <<>>]

\* The tasks that share the store before they start.
NoHistory == <<[role |-> "none", content |-> ""]>>

StoreIdle ==
    /\ mx_acts = <<>>
    /\ mx_lock = [owner |-> "none", queue |-> <<>>]
    /\ mx_task = [t \in {"pipeline", "bot", "api"} |->
                    [pc |-> "idle", waiting |-> FALSE, i |-> 1, runs |-> 0, loop |-> FALSE]]
    /\ mx_store = [chat |-> <<>>, analyses |-> {}]
    /\ mx_out = [history |-> NoHistory, analysed |-> <<>>]

\* The morning notifier before it is spawned.
MorningIdle ==
    /\ mn_now = 0
    /\ mn_loop = [pc |-> "idle", last_sent_date |-> "", planned |-> FALSE,
                  fetch_failed |-> FALSE, sent |-> <<>>]

\* No conversation is being answered.
ConversationIdle ==
    /\ cv_reply = [ok |-> FALSE, text |-> ""]
    /\ cv_task = [pc |-> "idle", built |-> 0, created |-> 0, sent |-> ""]

\* No turn of the materializer loop is observed from the cloud.
CloudIdle ==
    /\ cd_call = [pc |-> "idle", attempt |-> 1, workout_id |-> NoneNum, dated |-> FALSE]
    /\ cd_cloud = [workouts |-> <<>>, entries |-> 0]

\* ================================================================ cleanup

\* The workout names the cloud may hold: AI-managed ones, user-authored ones
\* and an entry without a workoutName.
WorkoutNames ==
    {"FJ-AI:Push", "FJ-AI:Strength", "Strength A", "Upper Body", "Test",
     "Morning Run", None}

\* The workout lists of the cloud: ids are unique (the position in the list).
CloudLists ==
    UNION {[1..n -> WorkoutNames] : n \in 0..MaxCloudWorkouts}

AsWorkouts(names) ==
    [i \in 1..Len(names) |-> [workoutId |-> i, workoutName |-> names[i]]]

\* The cleanup before it runs, and as it stands while another subsystem runs.
CleanupIdle ==
    /\ cl_mode = "pipeline"
    /\ cl_pc = "list"
    /\ cl_cloud = <<>>
    /\ cl_listed = <<>>
    /\ cl_to_delete = <<>>
    /\ cl_deleted = {}

CleanupInit ==
    /\ cl_mode \in {"pipeline", "cli"}
    /\ cl_pc = "list"
    /\ \E names \in CloudLists : cl_cloud = AsWorkouts(names)
    /\ cl_listed = <<>>
    /\ cl_to_delete = <<>>
    /\ cl_deleted = {}

\* SelectSeq with the test of the running mode: the loop that fills to_delete.
ToDelete(arr, mode) ==
    LET keep(w) ==
            /\ w.workoutName # None
            /\ IF mode = "pipeline"
                  THEN CleanupSelects(w.workoutName)
                  ELSE IsAiManagedWorkout(w.workoutName)
    IN  SelectSeq(arr, keep)

\* api.get_workouts() answered with the array of workouts; to_delete is filled.
CleanupList ==
    /\ cl_pc = "list"
    /\ cl_listed' = cl_cloud
    /\ cl_to_delete' = ToDelete(cl_cloud, cl_mode)
    /\ cl_pc' = IF ToDelete(cl_cloud, cl_mode) = <<>> THEN "done" ELSE "delete"
    /\ UNCHANGED <<cl_mode, cl_cloud, cl_deleted>>
    /\ UNCHANGED exceptCleanup

\* api.get_workouts() failed, or answered with something that is no array:
\* nothing is deleted.
CleanupListFails ==
    /\ cl_pc = "list"
    /\ cl_pc' = "done"
    /\ UNCHANGED <<cl_mode, cl_cloud, cl_listed, cl_to_delete, cl_deleted>>
    /\ UNCHANGED exceptCleanup

\* One turn of `for (wid, name) in to_delete`: connectapi_delete is issued for
\* the head; the cloud removes the workout (ok) or the call fails.
CleanupDelete ==
    /\ cl_pc = "delete"
    /\ \E ok \in BOOLEAN :
          LET wid == Head(cl_to_delete).workoutId
          IN  /\ cl_deleted' = cl_deleted \cup {wid}
              /\ cl_cloud' = IF ok
                                THEN SelectSeq(cl_cloud, LAMBDA w : w.workoutId # wid)
                                ELSE cl_cloud
    /\ cl_to_delete' = Tail(cl_to_delete)
    /\ cl_pc' = IF Tail(cl_to_delete) = <<>> THEN "done" ELSE "delete"
    /\ UNCHANGED <<cl_mode, cl_listed>>
    /\ UNCHANGED exceptCleanup

NextCleanup ==
    \/ CleanupList
    \/ CleanupListFails
    \/ CleanupDelete

InitCleanup == CleanupInit /\ PlanIdle /\ CacheIdle /\ LimiterIdle /\ ApiIdle /\ BotIdle /\ NotifierIdle /\ ChatIdle /\ IngestIdle /\ ProfilesIdle /\ FetchIdle /\ AuthIdle /\ PostChatIdle /\ ExtractIdle /\ BuildIdle /\ ResolveIdle /\ ProgressionIdle /\ StoreIdle /\ MorningIdle /\ ConversationIdle /\ CloudIdle

SpecCleanup == InitCleanup /\ [][NextCleanup]_vars

\* C1: once a cleanup has listed the cloud's workouts and finished, a DELETE
\* was issued for a listed workout iff its name starts with FJ-AI: , in the
\* pipeline's cleanup and in the --delete-workouts mode alike.
C1_CleanupDeletesIffPrefix ==
    cl_pc = "done" =>
        \A i \in 1..Len(cl_listed) :
            (cl_listed[i].workoutId \in cl_deleted)
                <=> (/\ cl_listed[i].workoutName # None
                     /\ StartsWith(cl_listed[i].workoutName, "FJ-AI:"))

\* ====================================================== cloud API client

\* max_retries of connectapi_get / connectapi_post / connectapi_delete
MAX_RETRIES == 3

\* An answer to one HTTP request: an HTTP response [status, text, body], where
\* body is the JSON value the text parses to (JAbsent when it is no JSON and
\* JNull-free "" text when it is empty), or a transport error.
HttpResp(status, text, body) ==
    [kind |-> "http", status |-> status, text |-> text, body |-> body]
TransportErr(msg) ==
    [kind |-> "transport", status |-> 0, text |-> msg, body |-> JAbsent]

\* StatusCode::is_success
IsSuccess(status) == status >= 200 /\ status <= 299

\* Display of a StatusCode: the number and the canonical reason.
StatusText(status) ==
    NatToStr(status) \o
        (CASE status = 200 -> " OK"
           [] status = 204 -> " No Content"
           [] status = 400 -> " Bad Request"
           [] status = 401 -> " Unauthorized"
           [] status = 500 -> " Internal Server Error"
           [] status = 503 -> " Service Unavailable"
           [] OTHER -> "")

\* The Result a call returns: Ok(value) or Err(text).
Ok(value) == [ok |-> TRUE, value |-> value, err |-> ""]
Err(text) == [ok |-> FALSE, value |-> JNull, err |-> text]
\* No result yet: the call goes on (the next turn of the retry loop).
Pending == [ok |-> FALSE, value |-> JAbsent, err |-> "<pending>"]

\* What a 2xx answer makes a call return: the JSON body for GET, the JSON body
\* or {} for POST (204 or an empty body), nothing for DELETE; an error when the
\* body is no JSON.
SuccessResult(method, resp) ==
    IF method = "DELETE" THEN Ok(JNull)
    ELSE IF method = "POST" /\ (resp.status = 204 \/ Trim(resp.text) = "") THEN Ok(JObj(<<>>))
    ELSE IF resp.body = JAbsent
       THEN Err(IF method = "POST" THEN "expected value at line 1 column 1"
                ELSE "error decoding response body")
    ELSE Ok(resp.body)

\* C8, mutant of AttemptResult: a failed third attempt is retried as well.
AttemptResult_NoLimit(method, attempt, resp) ==
    IF resp.kind = "http" /\ IsSuccess(resp.status) THEN SuccessResult(method, resp)
    ELSE Pending

\* What one turn of the retry loop of connectapi_get / _post / _delete makes of
\* the answer to its request: the call's result, or Pending (sleep, try again).
AttemptResult(method, attempt, resp) ==
    IF resp.kind = "http" /\ IsSuccess(resp.status) THEN SuccessResult(method, resp)
    ELSE IF attempt = MAX_RETRIES
       THEN IF resp.kind = "http"
               THEN Err("Garmin API " \o method \o " returned " \o StatusText(resp.status)
                        \o ": " \o resp.text)
               ELSE Err("Garmin API " \o method \o " request failed: " \o resp.text)
    ELSE Pending

\* self.refresh_oauth2().await? failing at the top of a turn of the loop.
RefreshErrText == "Failed to refresh OAuth2 token 401 Unauthorized: "

\* ====================================================== plan materializer

\* garmin_client::ensure_ai_workout_name: the name, made to begin with the
\* AI-managed prefix (spec 4.8 step 4).
EnsureAiWorkoutName(name) ==
    IF StartsWith(name, AI_WORKOUT_PREFIX) THEN name ELSE AI_WORKOUT_PREFIX \o name

\* The loop's first lines (main.rs:497-509): the workout's name is replaced by
\* the prefixed name when the spec is a JSON object.
NormalizedSpec(w) ==
    IF w.t = "obj"
       THEN LET current_name == IF AsStr(Get(w, "workoutName")) = None
                                   THEN "Imported Strength Workout"
                                   ELSE AsStr(Get(w, "workoutName"))
            IN  JObj([k \in DOMAIN w.v \cup {"workoutName"} |->
                        IF k = "workoutName" THEN JStr(EnsureAiWorkoutName(current_name))
                        ELSE w.v[k]])
       ELSE w

\* The plan specs an LLM reply (or a --test-upload file) may hold.
PlanSpecs ==
    { JObj(("workoutName" :> JStr("Push"))
           @@ ("scheduledDate" :> JStr("2025-01-02"))
           @@ ("steps" :> JArr(<<
                 JObj(("phase" :> JStr("warmup")) @@ ("exercise" :> JStr("ROW"))
                      @@ ("duration" :> JStr("5min"))),
                 JObj(("phase" :> JStr("interval")) @@ ("exercise" :> JStr("BENCH_PRESS"))
                      @@ ("weight" :> JFloat(825)) @@ ("reps" :> JInt(5))
                      @@ ("rest" :> JInt(120))) >>))),
      JObj(("workoutName" :> JStr("FJ-AI:Legs"))
           @@ ("steps" :> JArr(<<
                 JObj(("phase" :> JStr("interval")) @@ ("exercise" :> JStr("Goblet squat"))
                      @@ ("reps" :> JStr("AMRAP")) @@ ("rest" :> JStr("LAP"))
                      @@ ("note" :> JStr("slow"))) >>))),
      JObj(("scheduledDate" :> JStr("2025-01-03"))
           @@ ("steps" :> JArr(<<
                 JObj(("phase" :> JStr("cooldown")) @@ ("exercise" :> JStr("YOGA"))
                      @@ ("duration" :> JStr("10min"))) >>))),
      JInt(7) }

\* The answers of the cloud to a create POST: created (200 with the workoutId),
\* 204, 400, a 503 whose body quotes a 400, and a transport error.
CreateResponses ==
    { HttpResp(200, "{\"workoutId\": 41}", JObj("workoutId" :> JInt(41))),
      HttpResp(204, "", JAbsent),
      HttpResp(400, "Invalid exercise", JAbsent),
      HttpResp(503, "upstream answered 400", JAbsent),
      TransportErr("connection reset") }

\* The answers of the cloud to a schedule POST.
ScheduleResponses ==
    { HttpResp(200, "{}", JObj(<<>>)),
      HttpResp(500, "calendar unavailable", JAbsent) }

\* The record of one HTTP request in pl_posts: the endpoint, the answer's status
\* (0: transport error) and text and, of the JSON body sent, the workoutName, the date
\* and per step the category and the description.
Sent(endpoint, payload, resp) ==
    [endpoint |-> endpoint,
     status |-> resp.status,
     text |-> resp.text,
     workoutName |-> Get(payload, "workoutName"),
     date |-> Get(payload, "date"),
     steps |-> IF IsSome(Get(payload, "workoutSegments"))
                  THEN [i \in 1..Len(WorkoutSteps(payload)) |->
                          [category |-> Get(WorkoutSteps(payload)[i], "category"),
                           description |-> Get(WorkoutSteps(payload)[i], "description")]]
                  ELSE <<>>]

PlanInit ==
    /\ pl_mode \in {"pipeline", "test_upload"}
    /\ pl_pc = "next"
    /\ \E n \in 0..MaxPlanWorkouts : pl_workouts \in [1..n -> PlanSpecs]
    /\ pl_mode = "test_upload" => Len(pl_workouts) = 1
    /\ pl_spec = JNull
    /\ pl_payload = JNull
    /\ pl_attempt = 1
    /\ pl_workout_id = NoneNum
    /\ pl_posts = <<>>
    /\ pl_count = 0
    /\ pl_cache_cleared = FALSE
    /\ pl_log = <<>>
    /\ pl_details = <<>>
    /\ pl_broadcast = NoBroadcast

\* The top of `for w in workouts` up to the first create POST: the name is
\* normalized and the strict payload built. In --test-upload mode the parsed
\* file is built as it is (main.rs:126-127).
PlanBegin ==
    /\ pl_pc = "next"
    /\ pl_workouts # <<>>
    /\ LET workout_spec == IF pl_mode = "pipeline" THEN NormalizedSpec(Head(pl_workouts))
                           ELSE Head(pl_workouts)
       IN  /\ pl_spec' = workout_spec
           /\ pl_payload' = BuildWorkoutPayload(exercise_db, workout_spec, FALSE)
    /\ pl_workouts' = Tail(pl_workouts)
    /\ pl_workout_id' = NoneNum
    /\ pl_attempt' = 1
    /\ pl_posts' = <<>>
    /\ pl_pc' = "create"
    /\ UNCHANGED <<pl_mode, pl_count, pl_cache_cleared, pl_log, pl_details, pl_broadcast>>
    /\ UNCHANGED exceptPlan

\* C31, mutant of HasScheduledDate: every spec counts as dated.
HasScheduledDate_Always(workout_spec) == TRUE

\* Some(sch_date) of workout_spec.get("scheduledDate").and_then(as_str)
HasScheduledDate(workout_spec) == AsStr(Get(workout_spec, "scheduledDate")) # None

\* Where the loop goes once a create call has returned `res` (main.rs:526-595).
AfterCreate(res, robust_call) ==
    LET id == IF res.ok /\ IsI64(Get(res.value, "workoutId"))
                 THEN Some(Get(res.value, "workoutId").v) ELSE NoneNum
        fallback == ~res.ok /\ ~robust_call /\ Contains(res.err, "400")
    IN  /\ pl_workout_id' = id
        /\ pl_attempt' = 1
        /\ IF pl_mode = "test_upload"
              THEN /\ pl_pc' = "done"
                   /\ pl_payload' = pl_payload
                   /\ pl_log' = pl_log
              ELSE IF fallback
                 THEN /\ pl_pc' = "create_robust"
                      /\ pl_payload' = BuildWorkoutPayload(exercise_db, pl_spec, TRUE)
                      /\ pl_log' = pl_log
              ELSE /\ pl_pc' = IF id.some /\ HasScheduledDate(pl_spec)
                                  THEN "schedule" ELSE "next"
                   /\ pl_payload' = pl_payload
                   /\ pl_log' = IF id.some /\ HasScheduledDate(pl_spec) THEN pl_log
                                ELSE Append(pl_log, IF id.some THEN "created" ELSE "failed")

\* One turn of the retry loop of connectapi_post("/workout-service/workout"):
\* the POST is sent and the cloud answers it.
PlanCreateAttempt ==
    /\ pl_pc \in {"create", "create_robust"}
    /\ \E resp \in CreateResponses :
          LET res == AttemptResult("POST", pl_attempt, resp)
          IN  /\ pl_posts' = Append(pl_posts,
                     Sent("/workout-service/workout", pl_payload, resp))
              /\ IF res = Pending
                    THEN /\ pl_attempt' = pl_attempt + 1
                         /\ UNCHANGED <<pl_pc, pl_payload, pl_workout_id, pl_log>>
                    ELSE AfterCreate(res, pl_pc = "create_robust")
    /\ UNCHANGED <<pl_mode, pl_workouts, pl_spec, pl_count, pl_cache_cleared,
                   pl_details, pl_broadcast>>
    /\ UNCHANGED exceptPlan

\* A turn of the retry loop that ends at `self.refresh_oauth2().await?`: the
\* token was near its expiry and the refresh failed; no POST is sent.
PlanCreateRefreshFails ==
    /\ pl_pc \in {"create", "create_robust"}
    /\ AfterCreate(Err(RefreshErrText), pl_pc = "create_robust")
    /\ UNCHANGED <<pl_mode, pl_workouts, pl_spec, pl_posts, pl_count,
                   pl_cache_cleared, pl_details, pl_broadcast>>
    /\ UNCHANGED exceptPlan

\* format_workout_details names the workout by ensure_ai_workout_name of its
\* workoutName, "Unknown Workout" without one.
DetailsName(workout_spec) ==
    EnsureAiWorkoutName(IF AsStr(Get(workout_spec, "workoutName")) = None
                        THEN "Unknown Workout"
                        ELSE AsStr(Get(workout_spec, "workoutName")))

\* C20, mutant of PushDetails: the summary leaves the workout out.
PushDetails_Dropped(scheduled_details, workout_spec) == scheduled_details

\* scheduled_details.push(format!("Scheduled for: {}\n{}", sch_date, detailed_str))
PushDetails(scheduled_details, workout_spec) ==
    Append(scheduled_details,
           [date |-> AsStr(Get(workout_spec, "scheduledDate")),
            name |-> DetailsName(workout_spec)])

\* One turn of the retry loop of connectapi_post("/workout-service/schedule/<id>").
PlanScheduleAttempt ==
    /\ pl_pc = "schedule"
    /\ \E resp \in ScheduleResponses :
          LET res == AttemptResult("POST", pl_attempt, resp)
          IN  /\ pl_posts' = Append(pl_posts,
                     Sent("/workout-service/schedule/" \o NatToStr(pl_workout_id.v),
                          JObj("date" :> Get(pl_spec, "scheduledDate")), resp))
              /\ IF res = Pending
                    THEN /\ pl_attempt' = pl_attempt + 1
                         /\ UNCHANGED <<pl_pc, pl_count, pl_log, pl_details>>
                    ELSE /\ pl_attempt' = 1
                         /\ pl_pc' = "next"
                         /\ pl_count' = IF res.ok THEN pl_count + 1 ELSE pl_count
                         /\ pl_details' = IF res.ok THEN PushDetails(pl_details, pl_spec)
                                          ELSE pl_details
                         /\ pl_log' = Append(pl_log, IF res.ok THEN "scheduled" ELSE "failed")
    /\ UNCHANGED <<pl_mode, pl_workouts, pl_spec, pl_payload, pl_workout_id,
                   pl_cache_cleared, pl_broadcast>>
    /\ UNCHANGED exceptPlan

\* After the loop: the summary is handed to broadcast_message when
\* generated_count > 0 (main.rs:597-604); the call returns before the next line.
PlanBroadcast ==
    /\ pl_pc = "next"
    /\ pl_workouts = <<>>
    /\ pl_mode = "pipeline"
    /\ pl_broadcast' = IF pl_count > 0
                        THEN [sent |-> TRUE, count |-> pl_count, details |-> pl_details]
                        ELSE pl_broadcast
    /\ pl_pc' = "clear"
    /\ UNCHANGED <<pl_mode, pl_workouts, pl_spec, pl_payload, pl_attempt, pl_workout_id,
                   pl_posts, pl_count, pl_cache_cleared, pl_log, pl_details>>
    /\ UNCHANGED exceptPlan

\* The end of the run: database.lock().await.clear_garmin_cache() (main.rs:606).
PlanFinish ==
    /\ pl_pc = "clear"
    /\ pl_cache_cleared' = TRUE
    /\ pl_pc' = "done"
    /\ UNCHANGED <<pl_mode, pl_workouts, pl_spec, pl_payload, pl_attempt, pl_workout_id,
                   pl_posts, pl_count, pl_log, pl_details, pl_broadcast>>
    /\ UNCHANGED exceptPlan

NextPlan ==
    \/ PlanBegin
    \/ PlanCreateAttempt
    \/ PlanCreateRefreshFails
    \/ PlanScheduleAttempt
    \/ PlanBroadcast
    \/ PlanFinish

InitPlan == PlanInit /\ CleanupIdle /\ CacheIdle /\ LimiterIdle /\ ApiIdle /\ BotIdle /\ NotifierIdle /\ ChatIdle /\ IngestIdle /\ ProfilesIdle /\ FetchIdle /\ AuthIdle /\ PostChatIdle /\ ExtractIdle /\ BuildIdle /\ ResolveIdle /\ ProgressionIdle /\ StoreIdle /\ MorningIdle /\ ConversationIdle /\ CloudIdle

SpecPlan == InitPlan /\ [][NextPlan]_vars

\* The create POSTs in the log of the current workout.
CreatePosts == SelectSeq(pl_posts, LAMBDA p : p.endpoint = "/workout-service/workout")

\* C2: every create request sent to /workout-service/workout, by the pipeline
\* and by --test-upload, carries a workoutName that begins with FJ-AI: .
C2_CreatedNamesCarryPrefix ==
    \A i \in 1..Len(CreatePosts) :
        StartsWith(AsStr(CreatePosts[i].workoutName), "FJ-AI:")

\* ---- C20: the turns of the loop are independent

\* The loop is inside the turn of a workout.
InTurn == IF pl_pc \in {"create", "create_robust", "schedule"} THEN 1 ELSE 0

\* The turns that ended with the workout scheduled.
ScheduledTurns == {i \in 1..Len(pl_log) : pl_log[i] = "scheduled"}

\* The last request of the turn was a schedule POST answered 2xx.
ScheduleAccepted(posts) ==
    /\ posts # <<>>
    /\ StartsWith(posts[Len(posts)].endpoint, "/workout-service/schedule/")
    /\ IsSuccess(posts[Len(posts)].status)

\* C20: in the pipeline a turn of the loop that fails (the create call, a
\* missing workoutId, the schedule call) ends that turn only: no plan spec of
\* the batch is dropped, the loop goes on with the specs that are left, a
\* workout counts as scheduled exactly when its own schedule POST was
\* accepted, and at the end of the run the summary of exactly the scheduled
\* workouts is broadcast when there is one.
C20_WorkoutFailuresAreIndependent ==
    /\ [](pl_mode = "pipeline" /\ pl_pc = "done" =>
            /\ pl_workouts = <<>>
            /\ pl_count = Cardinality(ScheduledTurns)
            /\ Len(pl_details) = pl_count
            /\ pl_broadcast = IF ScheduledTurns # {}
                               THEN [sent |-> TRUE, count |-> pl_count,
                                     details |-> pl_details]
                               ELSE NoBroadcast)
    /\ [][pl_mode = "pipeline" =>
            Len(pl_log') + Len(pl_workouts') + InTurn'
               = Len(pl_log) + Len(pl_workouts) + InTurn]_vars
    /\ [][pl_mode = "pipeline" /\ Len(pl_log') = Len(pl_log) + 1 =>
            /\ pl_pc' = "next"
            /\ pl_workouts' = pl_workouts
            /\ pl_log'[Len(pl_log')] = "scheduled" <=> ScheduleAccepted(pl_posts')
            /\ pl_details' = IF ScheduleAccepted(pl_posts')
                              THEN Append(pl_details,
                                      [date |-> AsStr(Get(pl_spec, "scheduledDate")),
                                       name |-> DetailsName(pl_spec)])
                              ELSE pl_details]_vars

\* C20 witness: the first workout of a batch of two failed, the second was
\* scheduled, and the run has broadcast the summary of the second.
C20_Witness ==
    /\ pl_mode = "pipeline"
    /\ pl_pc = "done"
    /\ pl_log = <<"failed", "scheduled">>
    /\ pl_broadcast.sent
    /\ pl_broadcast.count = 1
    /\ Len(pl_broadcast.details) = 1

\* ---- C7: the robust fallback

\* The steps of the plan spec being materialized.
SpecSteps == IF Get(pl_spec, "steps").t = "arr" THEN Get(pl_spec, "steps").v ELSE <<>>

\* The exercise steps of a logged create POST (a REST step has no description key).
ExerciseDtos(post) == SelectSeq(post.steps, LAMBDA d : d.description # JAbsent)

\* A create POST carries the robust payload: one exercise step per plan step,
\* its category null and its description holding the plan's exercise text.
IsRobustPost(post) ==
    /\ Len(ExerciseDtos(post)) = Len(SpecSteps)
    /\ \A k \in 1..Len(SpecSteps) :
          /\ ExerciseDtos(post)[k].category = JNull
          /\ ExerciseDtos(post)[k].description.t = "str"
          /\ Contains(ExerciseDtos(post)[k].description.v, RawName(SpecSteps[k]))

\* A create POST carries the strict payload: every exercise step names a category.
IsStrictPost(post) ==
    /\ Len(ExerciseDtos(post)) = Len(SpecSteps)
    /\ \A k \in 1..Len(SpecSteps) : ExerciseDtos(post)[k].category.t = "str"

\* The answer logged with a request is a failure whose error text holds "400".
Quotes400(post) ==
    /\ post.status # 0
    /\ ~IsSuccess(post.status)
    /\ Contains(StatusText(post.status) \o ": " \o post.text, "400")

LastPost(posts) == posts[Len(posts)]

SpecDate == AsStr(Get(pl_spec, "scheduledDate"))

\* The schedule POSTs in the log of the current workout.
IsSchedulePost(p) == StartsWith(p.endpoint, "/workout-service/schedule/")

\* The run had one plan spec, the spec has a scheduledDate, its turn of the
\* loop is over and the cloud accepted every request: the create call got to
\* send its POST (its token refresh did not fail) and every POST was answered
\* 200.
OneSpecAllAccepted ==
    /\ pl_mode = "pipeline"
    /\ pl_pc \in {"next", "clear", "done"}
    /\ pl_workouts = <<>>
    /\ Len(pl_log) = 1
    /\ SpecDate # None
    /\ pl_posts # <<>>
    /\ \A i \in 1..Len(pl_posts) : pl_posts[i].status = 200

\* C31: for a plan of one spec with a scheduledDate and a cloud that accepts
\* every request the run sends one create POST, then one schedule POST to
\* /workout-service/schedule/<id> with the id of the create answer and the
\* spec's date, then broadcasts the summary naming the FJ-AI: workout and its
\* date, then clears the cache; a schedule POST is only ever sent for a spec
\* that has a scheduledDate and after a create POST answered with a workoutId.
C31_CreateScheduleBroadcastInvalidate ==
    /\ [](OneSpecAllAccepted =>
            /\ Len(pl_posts) = 2
            /\ pl_posts[1].endpoint = "/workout-service/workout"
            /\ pl_posts[2].endpoint = "/workout-service/schedule/41"
            /\ pl_posts[2].date = JStr(SpecDate)
            /\ pl_count = 1
            /\ pl_pc \in {"clear", "done"} =>
                  /\ pl_broadcast.sent
                  /\ pl_broadcast.count = 1
                  /\ Len(pl_broadcast.details) = 1
                  /\ pl_broadcast.details[1].date = SpecDate
                  /\ StartsWith(pl_broadcast.details[1].name, "FJ-AI:")
                  /\ JStr(pl_broadcast.details[1].name) = pl_posts[1].workoutName
            /\ pl_pc = "done" => pl_cache_cleared)
    /\ [](\A i \in 1..Len(pl_posts) :
            IsSchedulePost(pl_posts[i]) =>
               /\ SpecDate # None
               /\ pl_posts[i].date = JStr(SpecDate)
               /\ pl_workout_id = Some(41)
               /\ pl_posts[i].endpoint = "/workout-service/schedule/41"
               /\ \E j \in 1..(i - 1) :
                     /\ pl_posts[j].endpoint = "/workout-service/workout"
                     /\ pl_posts[j].status = 200
                     /\ \A k \in (j + 1)..(i - 1) : IsSchedulePost(pl_posts[k]))
    /\ [][pl_posts' # pl_posts => ~pl_broadcast.sent /\ ~pl_cache_cleared]_vars
    /\ [][pl_broadcast' # pl_broadcast =>
            /\ ~pl_cache_cleared /\ ~pl_cache_cleared'
            /\ pl_workouts = <<>>
            /\ pl_posts' = pl_posts]_vars
    /\ [][pl_cache_cleared' # pl_cache_cleared =>
            /\ pl_cache_cleared'
            /\ pl_broadcast' = pl_broadcast
            /\ pl_count > 0 => pl_broadcast.sent]_vars

\* C31 witness: the one spec was created and scheduled on its date, the
\* summary broadcast and the cache cleared.
C31_Witness ==
    /\ OneSpecAllAccepted
    /\ pl_pc = "done"
    /\ Len(pl_posts) = 2
    /\ pl_posts[2].endpoint = "/workout-service/schedule/41"
    /\ pl_broadcast.sent
    /\ pl_broadcast.details[1].name = "FJ-AI:Push"
    /\ pl_broadcast.details[1].date = "2025-01-02"
    /\ pl_cache_cleared

\* ========================================================= snapshot cache

\* elapsed < 3600 of fetch_data
CACHE_TTL == 3600

\* The seconds the clock advances in one step, and the last second modelled.
ClockStep == 1800
MaxNow == 5400

\* u64::saturating_sub
SaturatingSub(a, b) == IF a >= b THEN a - b ELSE 0

\* C3, mutant of CacheFresh: no row is ever fresh.
CacheFresh_Never(now, updated_at) == FALSE

\* The cache test of fetch_data on a row read at `now`.
CacheFresh(now, updated_at) == SaturatingSub(now, updated_at) < CACHE_TTL

\* The requests fetch_data sends to the cloud when it does not serve the cache.
FetchEndpoints ==
    << "activities", "training_plans", "user_profile", "max_metrics",
       "calendar", "calendar", "calendar", "calendar", "calendar", "calendar",
       "body_battery", "sleep", "training_readiness", "hrv", "rhr_trend" >>

\* Calendar items as the cloud returns them.
CalendarItem(title, date, item_type) ==
    JObj(("title" :> JStr(title)) @@ ("date" :> JStr(date))
         @@ ("itemType" :> JStr(item_type)))

\* The item a schedule POST of the pipeline adds to the calendar.
ScheduledItem == CalendarItem("FJ-AI:Push", "2025-01-02", "workout")

\* Deserialize of models::ScheduledWorkout: item_type is read from "type" or
\* from its alias "itemType".
ParseScheduledWorkout(item) ==
    [title |-> AsStr(Get(item, "title")),
     date |-> AsStr(Get(item, "date")),
     item_type |-> IF IsSome(Get(item, "type")) THEN AsStr(Get(item, "type"))
                   ELSE AsStr(Get(item, "itemType"))]

\* The item types fetch_data keeps.
KeptItemTypes == {"workout", "fbtAdaptiveWorkout", "race", "event", "primaryEvent"}

RECURSIVE ScheduledWorkouts(_, _, _)
\* scheduled_workouts of fetch_data: the kept items, one per date_title key.
ScheduledWorkouts(items, seen_keys, out) ==
    IF items = <<>> THEN out
    ELSE IF /\ ParseScheduledWorkout(Head(items)).item_type \in KeptItemTypes
            /\ (ParseScheduledWorkout(Head(items)).date \o "_"
                  \o ParseScheduledWorkout(Head(items)).title) \notin seen_keys
       THEN ScheduledWorkouts(Tail(items),
                seen_keys \cup {ParseScheduledWorkout(Head(items)).date \o "_"
                                  \o ParseScheduledWorkout(Head(items)).title},
                Append(out, ParseScheduledWorkout(Head(items))))
       ELSE ScheduledWorkouts(Tail(items), seen_keys, out)

\* The GarminResponse fetch_data assembles from what the cloud answered.
GarminResponse(scheduled_workouts) ==
    [activities |-> <<>>, plans |-> <<>>, scheduled_workouts |-> scheduled_workouts]

\* serde_json::to_string(&GarminResponse): item_type is written as "type".
Serialize(response) ==
    JObj(("activities" :> JArr(response.activities))
         @@ ("plans" :> JArr(response.plans))
         @@ ("scheduled_workouts" :>
                JArr([i \in 1..Len(response.scheduled_workouts) |->
                        JObj(("title" :> JOptStr(response.scheduled_workouts[i].title))
                             @@ ("date" :> JStr(response.scheduled_workouts[i].date))
                             @@ ("type" :>
                                   JOptStr(response.scheduled_workouts[i].item_type)))])))

\* serde_json::from_str::<GarminResponse>
Deserialize(data) ==
    [activities |-> Get(data, "activities").v,
     plans |-> Get(data, "plans").v,
     scheduled_workouts |->
        [i \in 1..Len(Get(data, "scheduled_workouts").v) |->
            ParseScheduledWorkout(Get(data, "scheduled_workouts").v[i])]]

\* Where a task goes once its fetch_data has returned.
AfterFetch(t) == IF t = "pipe" THEN "schedule" ELSE "ret"

CacheInit ==
    /\ ca_is_test \in BOOLEAN
    /\ ca_now = CACHE_TTL
    /\ ca_epoch = 0
    /\ ca_calendar = << CalendarItem("City Race", "2025-01-05", "race"),
                        CalendarItem("Morning Run", "2025-01-01", "activity") >>
    /\ ca_cache \in {NoRow} \cup
          {Row(Serialize(GarminResponse(ScheduledWorkouts(ca_calendar, {}, <<>>))), at, 0) :
              at \in {0, ClockStep}}
    /\ ca_task = [t \in CacheTasks |-> IdleTask]

\* Time passes.
CacheTick ==
    /\ ca_now + ClockStep <= MaxNow
    /\ ca_now' = ca_now + ClockStep
    /\ UNCHANGED <<ca_is_test, ca_epoch, ca_calendar, ca_cache, ca_task>>
    /\ UNCHANGED exceptCache

\* A reader or the pipeline calls fetch_data.
FetchStart(t) ==
    /\ t \in {"reader", "pipe"}
    /\ ca_task[t].pc = "idle"
    /\ ca_task' = [ca_task EXCEPT ![t].pc = "check", ![t].start_at = ca_epoch]
    /\ UNCHANGED <<ca_is_test, ca_now, ca_epoch, ca_calendar, ca_cache>>
    /\ UNCHANGED exceptCache

\* force_pull_data: the row is deleted, then fetch_data is called.
ForcePullClear ==
    /\ ca_task["force"].pc = "idle"
    /\ ca_cache' = NoRow
    /\ ca_epoch' = ca_epoch + 1
    /\ ca_task' = [ca_task EXCEPT !["force"].pc = "check",
                                  !["force"].inval_at = ca_epoch + 1,
                                  !["force"].start_at = ca_epoch + 1]
    /\ UNCHANGED <<ca_is_test, ca_now, ca_calendar>>
    /\ UNCHANGED exceptCache

\* fetch_data, step 1: outside test mode the row is read; a fresh row is
\* parsed and returned, otherwise the cloud is asked.
FetchCheck(t) ==
    /\ ca_task[t].pc = "check"
    /\ IF ~ca_is_test /\ ca_cache.present /\ CacheFresh(ca_now, ca_cache.updated_at)
          THEN ca_task' = [ca_task EXCEPT ![t].pc = AfterFetch(t),
                                          ![t].response = Deserialize(ca_cache.data),
                                          ![t].read_at = ca_cache.read_at]
          ELSE ca_task' = [ca_task EXCEPT ![t].pc = "network"]
    /\ UNCHANGED <<ca_is_test, ca_now, ca_epoch, ca_calendar, ca_cache>>
    /\ UNCHANGED exceptCache

\* fetch_data, step 2: the requests are sent; a failed request leaves its part
\* of the response empty.
FetchNetwork(t) ==
    /\ ca_task[t].pc = "network"
    /\ \E items \in {ca_calendar, <<>>} :
          ca_task' = [ca_task EXCEPT
                         ![t].pc = "write",
                         ![t].requests = @ + Len(FetchEndpoints),
                         ![t].response = GarminResponse(ScheduledWorkouts(items, {}, <<>>)),
                         ![t].read_at = ca_epoch]
    /\ UNCHANGED <<ca_is_test, ca_now, ca_epoch, ca_calendar, ca_cache>>
    /\ UNCHANGED exceptCache

\* fetch_data, step 3: the response is serialized and written to the row.
FetchWrite(t) ==
    /\ ca_task[t].pc = "write"
    /\ ca_cache' = Row(Serialize(ca_task[t].response), ca_now, ca_task[t].read_at)
    /\ ca_task' = [ca_task EXCEPT ![t].pc = AfterFetch(t)]
    /\ UNCHANGED <<ca_is_test, ca_now, ca_epoch, ca_calendar>>
    /\ UNCHANGED exceptCache

\* run_coach_pipeline after its fetch_data: the schedule POSTs that succeed
\* put their workouts on the calendar.
PipelineSchedule ==
    /\ ca_task["pipe"].pc = "schedule"
    /\ \E generated_count \in {0, 1} :
          /\ ca_calendar' = IF generated_count = 1 THEN Append(ca_calendar, ScheduledItem)
                            ELSE ca_calendar
          /\ ca_task' = [ca_task EXCEPT !["pipe"].pc = "clear",
                                        !["pipe"].scheduled = generated_count,
                                        !["pipe"].scheduled_at = ca_epoch + 1]
    /\ ca_epoch' = ca_epoch + 1
    /\ UNCHANGED <<ca_is_test, ca_now, ca_cache>>
    /\ UNCHANGED exceptCache

\* run_coach_pipeline: clear_garmin_cache at the end of the run.
PipelineClear ==
    /\ ca_task["pipe"].pc = "clear"
    /\ ca_cache' = NoRow
    /\ ca_epoch' = ca_epoch + 1
    /\ ca_task' = [ca_task EXCEPT !["pipe"].pc = "ret", !["pipe"].inval_at = ca_epoch + 1]
    /\ UNCHANGED <<ca_is_test, ca_now, ca_calendar>>
    /\ UNCHANGED exceptCache

NextCache ==
    \/ CacheTick
    \/ ForcePullClear
    \/ PipelineSchedule
    \/ PipelineClear
    \/ \E t \in CacheTasks :
          \/ FetchStart(t)
          \/ FetchCheck(t)
          \/ FetchNetwork(t)
          \/ FetchWrite(t)

InitCache == CacheInit /\ CleanupIdle /\ PlanIdle /\ LimiterIdle /\ ApiIdle /\ BotIdle /\ NotifierIdle /\ ChatIdle /\ IngestIdle /\ ProfilesIdle /\ FetchIdle /\ AuthIdle /\ PostChatIdle /\ ExtractIdle /\ BuildIdle /\ ResolveIdle /\ ProgressionIdle /\ StoreIdle /\ MorningIdle /\ ConversationIdle /\ CloudIdle

SpecCache == InitCache /\ [][NextCache]_vars

\* C3: outside test mode, a fetch_data that finds a row younger than 3600 s
\* returns at once the snapshot the row holds and has sent no request.
C3_FreshCacheServedWithoutNetwork ==
    [][\A t \in CacheTasks :
          (/\ ca_task[t].pc = "check"
           /\ ca_task'[t].pc # "check"
           /\ ~ca_is_test
           /\ ca_cache.present
           /\ ca_now - ca_cache.updated_at < 3600)
              => (/\ ca_task'[t].pc = AfterFetch(t)
                  /\ Serialize(ca_task'[t].response) = ca_cache.data
                  /\ ca_task'[t].requests = 0)]_vars

\* C3 witness: a call has returned a cached snapshot without any request.
C3_Witness ==
    /\ ~ca_is_test
    /\ \E t \in {"reader", "force"} :
          /\ ca_task[t].pc = "ret"
          /\ ca_task[t].requests = 0
          /\ ca_task[t].response.scheduled_workouts # <<>>

\* C4: the snapshot the fetch_data of a force-pull obtains was read from the
\* cloud after the force-pull invalidated the cache.
C4_ForcePullReadsAfterInvalidation ==
    ca_task["force"].pc = "ret"
        => ca_task["force"].read_at >= ca_task["force"].inval_at

\* C5: once the pipeline has scheduled a workout and cleared the cache, a
\* fetch_data that starts afterwards returns a snapshot read from the cloud
\* after the scheduling.
C5_NextFetchSeesNewSchedule ==
    \A t \in {"reader", "force"} :
        (/\ ca_task["pipe"].pc = "ret"
         /\ ca_task["pipe"].scheduled = 1
         /\ ca_task[t].pc = "ret"
         /\ ca_task[t].start_at >= ca_task["pipe"].inval_at)
            => ca_task[t].read_at >= ca_task["pipe"].scheduled_at

\* =========================================================== rate limiter

\* The defaults and windows of run_server: 30 per 60 s, 6 per 3600 s.
CHAT_RATE_LIMIT_PER_MINUTE == 30
CHAT_WINDOW == 60
GENERATE_RATE_LIMIT_PER_HOUR == 6
GENERATE_WINDOW == 3600

\* The most clock steps and the most requests in one run.
MaxTicks == 4
MaxCalls == 4

\* The seconds the clock may advance between two requests.
TickSteps == {1, CHAT_WINDOW, GENERATE_WINDOW}

\* The values the environment may give a limit: unset, a number, no number.
EnvValues == {None, "1", "2", "-1"}

\* env_usize: the variable parsed as usize, the default when unset or no usize.
EnvUsize(value, default_value) ==
    IF value # None /\ Ch(value, 1) # "-" /\ ParseI64(value).some
       THEN ParseI64(value).v
       ELSE default_value

RECURSIVE Evict_AtWindow(_, _, _)
\* C6, mutant of Evict: a hit as old as the window is evicted too.
Evict_AtWindow(hits, now, window) ==
    IF hits # <<>> /\ now - Head(hits) >= window
       THEN Evict_AtWindow(Tail(hits), now, window)
       ELSE hits

RECURSIVE Evict(_, _, _)
\* The while loop of allow: hits older than the window leave the front.
Evict(hits, now, window) ==
    IF hits # <<>> /\ now - Head(hits) > window
       THEN Evict(Tail(hits), now, window)
       ELSE hits

\* SlidingWindowLimiter::allow at `now`: the answer and the limiter after it.
Allow(limiter, now) ==
    IF Len(Evict(limiter.hits, now, limiter.window)) >= limiter.max_requests
       THEN [allowed |-> FALSE,
             limiter |-> [limiter EXCEPT !.hits = Evict(limiter.hits, now, limiter.window)]]
       ELSE [allowed |-> TRUE,
             limiter |-> [limiter EXCEPT
                            !.hits = Append(Evict(limiter.hits, now, limiter.window), now)]]

LimiterInit ==
    /\ lm_now = 0
    /\ lm_ticks = 0
    /\ lm_calls = 0
    /\ \E chat \in {None, "2"}, generate \in EnvValues :
          lm_limiter =
             ("/api/chat" :> NewLimiter(EnvUsize(chat, CHAT_RATE_LIMIT_PER_MINUTE),
                                        CHAT_WINDOW))
             @@ ("/api/generate" :>
                    NewLimiter(EnvUsize(generate, GENERATE_RATE_LIMIT_PER_HOUR),
                               GENERATE_WINDOW))
    /\ lm_accepted = [r \in LimitedRoutes |-> <<>>]
    /\ lm_last = [route |-> None, allowed |-> FALSE]

\* Time passes.
LimiterTick ==
    /\ lm_ticks < MaxTicks
    /\ \E d \in TickSteps : lm_now' = lm_now + d
    /\ lm_ticks' = lm_ticks + 1
    /\ UNCHANGED <<lm_calls, lm_limiter, lm_accepted, lm_last>>
    /\ UNCHANGED exceptLimiter

\* A handler of a rate-limited route asks its limiter; a request that is not
\* allowed is answered 429.
LimitedRequest(route) ==
    /\ lm_calls < MaxCalls
    /\ lm_calls' = lm_calls + 1
    /\ lm_limiter' = [lm_limiter EXCEPT ![route] = Allow(lm_limiter[route], lm_now).limiter]
    /\ lm_accepted' = [lm_accepted EXCEPT
                         ![route] = IF Allow(lm_limiter[route], lm_now).allowed
                                       THEN Append(@, lm_now) ELSE @]
    /\ lm_last' = [route |-> route, allowed |-> Allow(lm_limiter[route], lm_now).allowed]
    /\ UNCHANGED <<lm_now, lm_ticks>>
    /\ UNCHANGED exceptLimiter

\* POST /api/generate
TriggerGenerate == LimitedRequest("/api/generate")

\* POST /api/chat
Chat == LimitedRequest("/api/chat")

NextLimiter ==
    \/ LimiterTick
    \/ TriggerGenerate
    \/ Chat

InitLimiter == LimiterInit /\ CleanupIdle /\ PlanIdle /\ CacheIdle /\ ApiIdle /\ BotIdle /\ NotifierIdle /\ ChatIdle /\ IngestIdle /\ ProfilesIdle /\ FetchIdle /\ AuthIdle /\ PostChatIdle /\ ExtractIdle /\ BuildIdle /\ ResolveIdle /\ ProgressionIdle /\ StoreIdle /\ MorningIdle /\ ConversationIdle /\ CloudIdle

SpecLimiter == InitLimiter /\ [][NextLimiter]_vars

\* The accepted requests of a route that are not older than its window at `now`.
InWindow(route, now) ==
    {i \in 1..Len(lm_accepted[route]) :
        now - lm_accepted[route][i] <= lm_limiter[route].window}

\* C6: a request is allowed iff fewer than N accepted requests of its route are
\* not older than the window; so a request that finds N of them is answered
\* 429, and with N >= 1 a request made more than a window after the oldest hit
\* still held is allowed.
C6_AllowIffFewerThanLimitInWindow ==
    [][\A r \in LimitedRoutes :
          (lm_calls' = lm_calls + 1 /\ lm_last'.route = r)
             => /\ lm_last'.allowed
                    <=> Cardinality(InWindow(r, lm_now)) < lm_limiter[r].max_requests
                /\ Cardinality(InWindow(r, lm_now)) >= lm_limiter[r].max_requests
                    => ~lm_last'.allowed
                /\ (/\ lm_limiter[r].hits # <<>>
                    /\ lm_now - Head(lm_limiter[r].hits) > lm_limiter[r].window)
                    => lm_last'.allowed]_vars

\* C6 witness: with limit N, N requests were accepted, the next one inside the
\* window was refused and a later one, after the window, accepted.
C6_Witness ==
    /\ lm_last.route = "/api/generate"
    /\ lm_last.allowed
    /\ lm_calls = lm_limiter["/api/generate"].max_requests + 2
    /\ Len(lm_accepted["/api/generate"]) = lm_limiter["/api/generate"].max_requests + 1
    /\ lm_limiter["/api/generate"].max_requests >= 1

\* ============================================== cloud API calls and OAuth2

\* The seconds before expires_at from which the token counts as expired.
OAUTH2_EXPIRY_BUFFER == 300

\* The seconds the clock advances in one step, and the last second modelled.
ApiClockStep == 3300
MaxApiNow == 3300

\* GarminApi::is_oauth2_expired
IsOAuth2Expired(oauth2, now) ==
    IF oauth2.expires_at.some
       THEN now >= SaturatingSub(oauth2.expires_at.v, OAUTH2_EXPIRY_BUFFER)
       ELSE FALSE

\* The answers of the cloud to an API request.
ApiAnswers ==
    { HttpResp(200, "{\"ok\": true}", JObj("ok" :> JInt(1))),
      HttpResp(200, "<html>", JAbsent),
      HttpResp(500, "boom", JAbsent),
      TransportErr("connection reset") }

\* The answers of the exchange endpoint: a token valid for an hour, a body
\* that is no token, a refusal, a transport error.
ExchangeAnswers ==
    { HttpResp(200, "{\"expires_in\": 3600}", JObj("expires_in" :> JInt(3600))),
      HttpResp(200, "<html>", JAbsent),
      HttpResp(401, "", JAbsent),
      TransportErr("connection reset") }

\* refresh_oauth2 up to res.json(): the parsed token, or the error returned.
ExchangeResult(resp) ==
    IF resp.kind # "http" THEN Err(resp.text)
    ELSE IF ~IsSuccess(resp.status)
       THEN Err("Failed to refresh OAuth2 token " \o StatusText(resp.status)
                \o ": " \o resp.text)
    ELSE IF resp.body = JAbsent THEN Err("error decoding response body")
    ELSE Ok(resp.body)

\* A call that ends with the error of its refresh_oauth2 (the `?`).
RefreshFailed(task, err) ==
    [task EXCEPT !.pc = "ret", !.refresh_failed = TRUE, !.result = err]

ApiInit ==
    /\ ap_now = 0
    /\ \E expires_at \in {NoneNum, Some(OAUTH2_EXPIRY_BUFFER), Some(3600)} :
          /\ ap_oauth2 = OAuth2Token(0, expires_at)
          /\ ap_file = [content |-> OAuth2Token(0, expires_at), mode |-> "0644"]
    /\ ap_issued = 0
    /\ \E kind \in {"GET", "POST", "DELETE", "REFRESH"} :
          ap_task = ("a" :> NewApiTask(kind)) @@ ("b" :> NewApiTask("GET"))

\* Time passes.
ApiTick ==
    /\ ap_now + ApiClockStep <= MaxApiNow
    /\ ap_now' = ap_now + ApiClockStep
    /\ UNCHANGED <<ap_oauth2, ap_file, ap_issued, ap_task>>
    /\ UNCHANGED exceptApi

\* The top of a turn of the retry loop: refresh_oauth2 is called when the
\* token counts as expired. --test-refresh calls refresh_oauth2 itself.
ApiCheckExpiry(t) ==
    /\ ap_task[t].pc = "top"
    /\ ap_task' = [ap_task EXCEPT
                     ![t].pc = IF \/ ap_task[t].kind = "REFRESH"
                                  \/ IsOAuth2Expired(ap_oauth2, ap_now)
                                  THEN "exchange" ELSE "send",
                     ![t].swapped = FALSE]
    /\ UNCHANGED <<ap_now, ap_oauth2, ap_file, ap_issued>>
    /\ UNCHANGED exceptApi

\* refresh_oauth2: the exchange request is sent; a token that parses replaces
\* the in-memory record.
RefreshExchange(t) ==
    /\ ap_task[t].pc = "exchange"
    /\ \E resp \in ExchangeAnswers :
          IF ExchangeResult(resp).ok
             THEN /\ ap_oauth2' = OAuth2Token(ap_issued + 1,
                        Some(ap_now + Get(ExchangeResult(resp).value, "expires_in").v))
                  /\ ap_issued' = ap_issued + 1
                  /\ ap_task' = [ap_task EXCEPT ![t].pc = "write",
                                                ![t].exchanges = @ + 1,
                                                ![t].swapped = TRUE]
             ELSE /\ ap_task' = [ap_task EXCEPT
                        ![t] = RefreshFailed([ap_task[t] EXCEPT !.exchanges = @ + 1],
                                             ExchangeResult(resp))]
                  /\ UNCHANGED <<ap_oauth2, ap_issued>>
    /\ UNCHANGED <<ap_now, ap_file>>
    /\ UNCHANGED exceptApi

\* refresh_oauth2: std::fs::write of the token file.
RefreshWriteFile(t) ==
    /\ ap_task[t].pc = "write"
    /\ \E written \in BOOLEAN :
          IF written
             THEN /\ ap_file' = [ap_file EXCEPT !.content = ap_oauth2]
                  /\ ap_task' = [ap_task EXCEPT ![t].pc = "chmod"]
             ELSE /\ ap_task' = [ap_task EXCEPT
                        ![t] = RefreshFailed(ap_task[t], Err("Permission denied (os error 13)"))]
                  /\ UNCHANGED ap_file
    /\ UNCHANGED <<ap_now, ap_oauth2, ap_issued>>
    /\ UNCHANGED exceptApi

\* refresh_oauth2: std::fs::set_permissions(0o600), then Ok(()).
RefreshSetPermissions(t) ==
    /\ ap_task[t].pc = "chmod"
    /\ \E done \in BOOLEAN :
          IF done
             THEN /\ ap_file' = [ap_file EXCEPT !.mode = "0600"]
                  /\ ap_task' = [ap_task EXCEPT
                        ![t].pc = IF ap_task[t].kind = "REFRESH" THEN "ret" ELSE "send",
                        ![t].result = IF ap_task[t].kind = "REFRESH" THEN Ok(JNull) ELSE @]
             ELSE /\ ap_task' = [ap_task EXCEPT
                        ![t] = RefreshFailed(ap_task[t],
                                             Err("Operation not permitted (os error 1)"))]
                  /\ UNCHANGED ap_file
    /\ UNCHANGED <<ap_now, ap_oauth2, ap_issued>>
    /\ UNCHANGED exceptApi

\* The request of one turn of the retry loop and what the loop makes of its
\* answer: the call returns, or sleeps 2 * attempt seconds and goes on.
ApiSend(t) ==
    /\ ap_task[t].pc = "send"
    /\ \E resp \in ApiAnswers :
          ap_task' = [ap_task EXCEPT
             ![t] = IF AttemptResult(ap_task[t].kind, ap_task[t].attempt, resp) = Pending
                       THEN [@ EXCEPT !.pc = "top",
                                      !.requests = @ + 1,
                                      !.answers = Append(@, resp),
                                      !.slept = Append(@, 2 * ap_task[t].attempt),
                                      !.attempt = @ + 1]
                       ELSE [@ EXCEPT !.pc = "ret",
                                      !.requests = @ + 1,
                                      !.answers = Append(@, resp),
                                      !.result = AttemptResult(ap_task[t].kind,
                                                               ap_task[t].attempt, resp)]]
    /\ UNCHANGED <<ap_now, ap_oauth2, ap_file, ap_issued>>
    /\ UNCHANGED exceptApi

\* The steps of one task.
ApiStep(t) ==
    \/ ApiCheckExpiry(t)
    \/ RefreshExchange(t)
    \/ RefreshWriteFile(t)
    \/ RefreshSetPermissions(t)
    \/ ApiSend(t)

NextApi ==
    \/ ApiTick
    \/ \E t \in ApiTasks : ApiStep(t)

InitApi == ApiInit /\ CleanupIdle /\ PlanIdle /\ CacheIdle /\ LimiterIdle /\ BotIdle /\ NotifierIdle /\ ChatIdle /\ IngestIdle /\ ProfilesIdle /\ FetchIdle /\ AuthIdle /\ PostChatIdle /\ ExtractIdle /\ BuildIdle /\ ResolveIdle /\ ProgressionIdle /\ StoreIdle /\ MorningIdle /\ ConversationIdle /\ CloudIdle

SpecApi == InitApi /\ [][NextApi]_vars

\* Every task goes on taking its steps while it has one to take.
SpecApiLive == SpecApi /\ \A t \in ApiTasks : WF_vars(ApiStep(t))

\* ------------------------------------------------------------ C8, C9, C10

\* The tasks that run connectapi_get, connectapi_post or connectapi_delete.
ApiCalls == {t \in ApiTasks : ap_task[t].kind # "REFRESH"}

IsFailure(resp) == resp.kind # "http" \/ ~IsSuccess(resp.status)

LastAnswer(task) == task.answers[Len(task.answers)]

RetryLoopShape(task) ==
    /\ task.requests <= 3
    /\ Len(task.answers) = task.requests
    /\ task.exchanges <= 3
    /\ task.exchanges <= task.requests + 1
    /\ Len(task.slept) = task.attempt - 1
    /\ \A k \in 1..Len(task.slept) :
          /\ task.slept[k] = 2 * k
          /\ IsFailure(task.answers[k])
    /\ task.pc # "ret" => task.requests = task.attempt - 1

\* What a call returned: the error of a failed refresh before any further
\* request; at a 2xx response the decoded body, or the decode error; after
\* the third failure the last status and body, or the transport error.
ReturnShape(task) ==
    IF task.refresh_failed
       THEN /\ ~task.result.ok
            /\ task.requests = task.attempt - 1
    ELSE IF ~IsFailure(LastAnswer(task))
       THEN /\ task.result = SuccessResult(task.kind, LastAnswer(task))
            /\ (task.kind = "DELETE" \/ LastAnswer(task).body # JAbsent) => task.result.ok
    ELSE /\ task.requests = 3
         /\ ~task.result.ok
         /\ Contains(task.result.err, LastAnswer(task).text)
         /\ LastAnswer(task).kind = "http" =>
               Contains(task.result.err, StatusText(LastAnswer(task).status))

C32_RefreshOncePerExpiry ==
    [][\A t \in ApiCalls :
          (ap_task[t].pc = "exchange" /\ ap_task'[t].pc # "exchange") =>
              IsOAuth2Expired(ap_oauth2, ap_now)]_vars

\* ============================================================== Signal bot

\* The ids processed_msgs keeps.
PROCESSED_WINDOW == 100

\* The frames the websocket delivers in one run: of messages that come
\* again, and of sync messages.
MaxFrames == 2
MaxSyncFrames == 1

\* A received frame with an envelope: the JSON fields the loop reads, None
\* for a field that is absent or no string; sync is the sentMessage, NoSent
\* when there is none.
Frame(account, source, sourceNumber, sourceUuid, timestamp, data, sync) ==
    [envelope |-> TRUE, account |-> account, source |-> source,
     sourceNumber |-> sourceNumber, sourceUuid |-> sourceUuid,
     timestamp |-> timestamp, data |-> data, sync |-> sync]

\* syncMessage.sentMessage: message is None when it carries no text.
SentMessage(message, destination, destinationNumber, destinationUuid) ==
    [message |-> message, destination |-> destination,
     destinationNumber |-> destinationNumber, destinationUuid |-> destinationUuid]

SentMessages ==
    {SentMessage(m, d, n, u) : m \in {"hi"}, d \in {None, "+1", "+2"},
                               n \in {None, "+1", "+2"}, u \in {None, "u1"}}
    \cup {SentMessage(None, "+1", "+1", "u1")}

\* The frames of sync messages: every combination of the fields the loop
\* compares. timestamp is NoneNum when the field is absent or no u64.
SyncFrames ==
    {Frame(a, s[1], s[2], u, t, d, y) :
        a \in {None, "+1"}, s \in {<<None, None>>, <<"+1", None>>, <<None, "+2">>},
        u \in {None, "u1"}, t \in {NoneNum, Some(1), Some(PROCESSED_WINDOW + 1)},
        d \in {None, " /status now "}, y \in {NoSent} \cup SentMessages}

\* The frames of two correspondents whose messages come again: data
\* messages, and notes to self.
ReplayFrames ==
    {Frame("+1", s[1], s[2], None, t, d, y) :
        s \in {<<"+1", None>>, <<None, "+2">>},
        t \in {NoneNum, Some(1), Some(PROCESSED_WINDOW + 1)},
        d \in {None, " /status now ", "hi"},
        y \in {NoSent, SentMessage("note", "+1", None, None)}}

InputFrames(input) == IF input = "sync" THEN SyncFrames ELSE ReplayFrames

FramesToCome(input) == IF input = "sync" THEN MaxSyncFrames ELSE MaxFrames

\* sender before the syncMessage is looked at: source, else sourceNumber,
\* else the account.
EnvelopeSender(frame) ==
    IF frame.source # None THEN frame.source
    ELSE IF frame.sourceNumber # None THEN frame.sourceNumber
    ELSE frame.account

\* The frame carries a syncMessage.sentMessage with a message text.
HasSyncText(frame) == frame.sync.message # None

\* C12, mutant of IsNoteToSelf: only the destination numbers are compared
\* with the account.
IsNoteToSelf_AccountOnly(frame) ==
    \/ frame.sync.destination # None /\ frame.sync.destination = frame.account
    \/ frame.sync.destinationNumber # None /\ frame.sync.destinationNumber = frame.account

\* is_note_to_self
IsNoteToSelf(frame) ==
    \/ frame.sync.destination # None /\ frame.sync.destination = frame.account
    \/ frame.sync.destinationNumber # None /\ frame.sync.destinationNumber = frame.account
    \/ frame.sync.destination # None /\ frame.sync.destination = frame.source
    \/ /\ frame.sync.destinationUuid # None
       /\ frame.sync.destinationUuid = frame.sourceUuid
       /\ frame.sourceUuid # None

\* text_content after the dataMessage and the syncMessage were looked at.
TextContent(frame) ==
    IF HasSyncText(frame) /\ IsNoteToSelf(frame) THEN frame.sync.message
    ELSE frame.data

\* sender after the dataMessage and the syncMessage were looked at.
Sender(frame) ==
    IF HasSyncText(frame) /\ IsNoteToSelf(frame) /\ frame.account # None
       THEN frame.account
       ELSE EnvelopeSender(frame)

\* timestamp: unwrap_or(0)
Timestamp(frame) == IF frame.timestamp.some THEN frame.timestamp.v ELSE 0

\* msg_id
MsgId(frame) == Sender(frame) \o "_" \o NatToStr(Timestamp(frame))

\* The frame gives a text and a sender.
HasMessage(frame) == TextContent(frame) # None /\ Sender(frame) # None

ProcessedContains(processed_msgs, msg_id) ==
    \E i \in 1..Len(processed_msgs) : processed_msgs[i] = msg_id

\* C11, mutant of PushProcessed: the window is never shortened.
PushProcessed_NoPop(processed_msgs, msg_id) == Append(processed_msgs, msg_id)

\* push_back, and pop_front when the window has grown beyond 100.
PushProcessed(processed_msgs, msg_id) ==
    IF Len(processed_msgs) + 1 > PROCESSED_WINDOW
       THEN Tail(Append(processed_msgs, msg_id))
       ELSE Append(processed_msgs, msg_id)

\* The reply to a message: from handle_command when the trimmed text starts
\* with '/', from handle_conversation otherwise.
Reply(msg_sender, msg_text) ==
    [recipient |-> msg_sender,
     handler |-> IF StartsWith(Trim(msg_text), "/") THEN "handle_command"
                 ELSE "handle_conversation",
     text |-> Trim(msg_text)]

\* The windows the loop may hold when the frames of this model arrive: none
\* yet, or the ids of the messages +1 has sent at 1, 2, ...
BotInit ==
    /\ bt_input \in {"replays", "sync"}
    /\ \E n \in {0, PROCESSED_WINDOW - 1, PROCESSED_WINDOW} :
          bt_processed = [i \in 1..n |-> "+1_" \o NatToStr(i)]
    /\ bt_frames = 0
    /\ bt_frame = NoFrame
    /\ bt_sent = <<>>

\* One turn of `while let Some(msg) = read.next().await`.
BotFrame ==
    /\ bt_frames < FramesToCome(bt_input)
    /\ \E frame \in InputFrames(bt_input) :
          /\ bt_frame' = frame
          /\ bt_frames' = bt_frames + 1
          /\ IF HasMessage(frame) /\ ~ProcessedContains(bt_processed, MsgId(frame))
                THEN /\ bt_processed' = PushProcessed(bt_processed, MsgId(frame))
                     /\ bt_sent' = <<Reply(Sender(frame), TextContent(frame))>>
                ELSE /\ bt_sent' = <<>>
                     /\ UNCHANGED bt_processed
    /\ UNCHANGED bt_input
    /\ UNCHANGED exceptBot

NextBot == BotFrame

InitBot == BotInit /\ CleanupIdle /\ PlanIdle /\ CacheIdle /\ LimiterIdle /\ ApiIdle /\ NotifierIdle /\ ChatIdle /\ IngestIdle /\ ProfilesIdle /\ FetchIdle /\ AuthIdle /\ PostChatIdle /\ ExtractIdle /\ BuildIdle /\ ResolveIdle /\ ProgressionIdle /\ StoreIdle /\ MorningIdle /\ ConversationIdle /\ CloudIdle

SpecBot == InitBot /\ [][NextBot]_vars

\* ---------------------------------------------------------------- C11, C12

\* A frame has just been taken and gave a message with this id.
TookMessage(frame) == frame.envelope /\ HasMessage(frame)

DestinationIsAccount(frame) ==
    /\ frame.account # None
    /\ frame.sync.destination = frame.account \/ frame.sync.destinationNumber = frame.account

AddressedToSelf(frame) ==
    \/ DestinationIsAccount(frame)
    \/ frame.source # None /\ frame.sync.destination = frame.source
    \/ frame.sourceUuid # None /\ frame.sync.destinationUuid = frame.sourceUuid

\* A sender is known: source, sourceNumber or account.
SenderKnown(frame) ==
    frame.source # None \/ frame.sourceNumber # None \/ frame.account # None

Calendar ==
    << [date |-> "2026-02-28", week |-> "2026-W09", month |-> 2, day |-> 28, weekday |-> "Sat"],
       [date |-> "2026-03-01", week |-> "2026-W09", month |-> 3, day |-> 1, weekday |-> "Sun"],
       [date |-> "2026-03-02", week |-> "2026-W10", month |-> 3, day |-> 2, weekday |-> "Mon"],
       [date |-> "2026-03-08", week |-> "2026-W10", month |-> 3, day |-> 8, weekday |-> "Sun"],
       [date |-> "2027-03-01", week |-> "2027-W09", month |-> 3, day |-> 1, weekday |-> "Mon"] >>

\* The last day of Calendar the loops reach.
MaxDay == 4

\* The minutes at which a loop wakes.
Times == {"07:00", "08:00", "12:00", "18:00"}

\* AppConfig::default
morning_message_time == "07:00"
readiness_message_time == "08:00"
weekly_review_day == "Sun"
weekly_review_time == "18:00"
monthly_review_day == 1
monthly_review_time == "18:00"

NotifierLoops == {"morning", "weekly", "readiness", "monthly"}

\* GarminClient::fetch_data as the notifiers see it: an error, or a snapshot
\* with or without a workout today and with the days until the next race.
NoRace == 0
Snapshots ==
    {[ok |-> FALSE, today_workouts |-> FALSE, days_until |-> NoRace]}
    \cup {[ok |-> TRUE, today_workouts |-> w, days_until |-> d] :
             w \in BOOLEAN, d \in {NoRace, 5, 14}}

NotifierInit ==
    /\ nt_loop \in NotifierLoops
    /\ nt_force \in BOOLEAN
    /\ nt_pc = "wake"
    /\ nt_day = 1
    /\ nt_time \in Times
    /\ nt_last_sent = (IF nt_loop = "monthly" THEN 0 ELSE "")
    /\ nt_log = <<>>

\* tokio::time::sleep(60 s): the loop wakes at a later moment. The hour that
\* local time repeats when summer time ends brings the same %H:%M again.
NotifierSleep ==
    /\ nt_pc = "sleep"
    /\ nt_pc' = "wake"
    /\ \E d \in nt_day..MaxDay : nt_day' = d
    /\ nt_time' \in Times
    /\ UNCHANGED <<nt_loop, nt_force, nt_last_sent, nt_log>>
    /\ UNCHANGED exceptNotifier

\* broadcast_message at the `now` of this turn of the loop.
Broadcast(log, day, time) == Append(log, [day |-> day, time |-> time])

\* C13, mutant of MorningTrigger: last_sent_date is not looked at.
MorningTrigger_TimeOnly(day, time, last_sent_date) == time = morning_message_time

\* start_morning_notifier: the trigger.
MorningTrigger(day, time, last_sent_date) ==
    time = morning_message_time /\ last_sent_date # Calendar[day].date

\* start_morning_notifier: one turn of the loop.
MorningLoop ==
    /\ nt_loop = "morning" /\ nt_pc = "wake"
    /\ nt_pc' = "sleep"
    /\ IF MorningTrigger(nt_day, nt_time, nt_last_sent)
          THEN \E data \in Snapshots :
                  IF data.ok
                     THEN /\ nt_log' = IF data.today_workouts
                                          THEN Broadcast(nt_log, nt_day, nt_time)
                                          ELSE nt_log
                          /\ nt_last_sent' = Calendar[nt_day].date
                     ELSE UNCHANGED <<nt_log, nt_last_sent>>
          ELSE UNCHANGED <<nt_log, nt_last_sent>>
    /\ UNCHANGED <<nt_loop, nt_force, nt_day, nt_time>>
    /\ UNCHANGED exceptNotifier

\* start_weekly_review_notifier: the trigger.
WeeklyTrigger(day, time, last_sent_week) ==
    /\ Calendar[day].weekday = weekly_review_day
    /\ time = weekly_review_time
    /\ last_sent_week # Calendar[day].week

\* start_weekly_review_notifier: one turn of the loop.
WeeklyLoop ==
    /\ nt_loop = "weekly" /\ nt_pc = "wake"
    /\ nt_pc' = "sleep"
    /\ IF WeeklyTrigger(nt_day, nt_time, nt_last_sent)
          THEN \E data \in Snapshots, review \in BOOLEAN :
                  IF data.ok /\ review
                     THEN /\ nt_log' = Broadcast(nt_log, nt_day, nt_time)
                          /\ nt_last_sent' = Calendar[nt_day].week
                     ELSE UNCHANGED <<nt_log, nt_last_sent>>
          ELSE UNCHANGED <<nt_log, nt_last_sent>>
    /\ UNCHANGED <<nt_loop, nt_force, nt_day, nt_time>>
    /\ UNCHANGED exceptNotifier

\* start_race_readiness_notifier: the trigger.
ReadinessTrigger(day, time, last_notified_day) ==
    time = readiness_message_time /\ last_notified_day # Calendar[day].date

\* start_race_readiness_notifier: one turn of the loop. The assessment is
\* broadcast also when the LLM call failed (it is the error text then).
ReadinessLoop ==
    /\ nt_loop = "readiness" /\ nt_pc = "wake"
    /\ nt_pc' = "sleep"
    /\ IF ReadinessTrigger(nt_day, nt_time, nt_last_sent)
          THEN \E data \in Snapshots :
                  IF data.ok
                     THEN /\ nt_log' = IF data.days_until \in {14, 7, 2}
                                          THEN Broadcast(nt_log, nt_day, nt_time)
                                          ELSE nt_log
                          /\ nt_last_sent' = Calendar[nt_day].date
                     ELSE UNCHANGED <<nt_log, nt_last_sent>>
          ELSE UNCHANGED <<nt_log, nt_last_sent>>
    /\ UNCHANGED <<nt_loop, nt_force, nt_day, nt_time>>
    /\ UNCHANGED exceptNotifier

\* start_monthly_debrief_notifier: the trigger.
MonthlyTrigger(day, time, force, last_sent_month) ==
    /\ \/ Calendar[day].day = monthly_review_day /\ time = monthly_review_time
       \/ force
    /\ last_sent_month # Calendar[day].month

\* start_monthly_debrief_notifier: one turn of the loop.
MonthlyLoop ==
    /\ nt_loop = "monthly" /\ nt_pc = "wake"
    /\ nt_pc' = "sleep"
    /\ IF MonthlyTrigger(nt_day, nt_time, nt_force, nt_last_sent)
          THEN \E data \in Snapshots, review \in BOOLEAN :
                  IF data.ok /\ review
                     THEN /\ nt_log' = Broadcast(nt_log, nt_day, nt_time)
                          /\ nt_last_sent' = Calendar[nt_day].month
                     ELSE UNCHANGED <<nt_log, nt_last_sent>>
          ELSE UNCHANGED <<nt_log, nt_last_sent>>
    /\ UNCHANGED <<nt_loop, nt_force, nt_day, nt_time>>
    /\ UNCHANGED exceptNotifier

NextNotifier ==
    \/ NotifierSleep
    \/ MorningLoop
    \/ WeeklyLoop
    \/ ReadinessLoop
    \/ MonthlyLoop

InitNotifier == NotifierInit /\ CleanupIdle /\ PlanIdle /\ CacheIdle /\ LimiterIdle /\ ApiIdle /\ BotIdle /\ ChatIdle /\ IngestIdle /\ ProfilesIdle /\ FetchIdle /\ AuthIdle /\ PostChatIdle /\ ExtractIdle /\ BuildIdle /\ ResolveIdle /\ ProgressionIdle /\ StoreIdle /\ MorningIdle /\ ConversationIdle /\ CloudIdle

SpecNotifier == InitNotifier /\ [][NextNotifier]_vars

\* -------------------------------------------------------------------- C13

\* The window a broadcast falls into: the calendar day, the ISO week, the
\* calendar month (year and month).
WindowOf(loop, day) ==
    IF loop = "weekly" THEN Calendar[day].week
    ELSE IF loop = "monthly" THEN SubSeq(Calendar[day].date, 1, 7)
    ELSE Calendar[day].date

\* C13: no two broadcasts of a notifier loop fall into the same window (day
\* for the morning message and the race readiness, ISO week for the weekly
\* review, calendar month for the monthly debrief, forced or not).
C13_AtMostOneBroadcastPerWindow ==
    \A i, j \in 1..Len(nt_log) :
       i < j => WindowOf(nt_loop, nt_log[i].day) # WindowOf(nt_loop, nt_log[j].day)

\* C13: the forced monthly debrief went out in February and in March 2026,
\* and the loop has just woken again in March with the trigger time repeating.
C13_Witness ==
    /\ nt_loop = "monthly" /\ nt_force
    /\ Len(nt_log) = 2
    /\ WindowOf("monthly", nt_log[1].day) = "2026-02"
    /\ WindowOf("monthly", nt_log[2].day) = "2026-03"
    /\ nt_day = 3 /\ nt_pc = "wake"

\* ============================================================= AI chat log

MAX_CHAT_HISTORY == 200

\* The calls of one run.
MaxChatCalls == 4

\* The largest id in the table, 0 when it is empty.
MaxId(rows) == IF rows = {} THEN 0 ELSE CHOOSE m \in {r.id : r \in rows} : \A r \in rows : r.id <= m

\* INSERT INTO ai_chats: an INTEGER PRIMARY KEY left out gets the largest id
\* of the table plus one.
InsertChat(rows, role, nth) == rows \cup {[id |-> MaxId(rows) + 1, role |-> role, nth |-> nth]}

\* C14, mutant of KeepNewest: the row of the smallest kept id is not counted.
KeepNewest_OneMore(rows, limit) ==
    {r \in rows : Cardinality({q \in rows : q.id > r.id}) <= limit}

\* DELETE FROM ai_chats WHERE id NOT IN (SELECT id ... ORDER BY id DESC LIMIT ?1)
KeepNewest(rows, limit) ==
    {r \in rows : Cardinality({q \in rows : q.id > r.id}) < limit}

\* A table that earlier calls have filled: n rows, the first of them with
\* the id `first`.
FilledTable(n, first) ==
    {[id |-> first + i - 1, role |-> (IF i % 2 = 1 THEN "user" ELSE "model"), nth |-> i] :
        i \in 1..n}

ChatInit ==
    /\ \E n \in {0, 1, MAX_CHAT_HISTORY - 1, MAX_CHAT_HISTORY}, first \in {1, 7} :
          /\ ch_rows = FilledTable(n, first)
          /\ ch_inserted = n
    /\ ch_calls = 0

\* Database::add_ai_chat_message
AddAiChatMessage(role) ==
    /\ ch_calls < MaxChatCalls
    /\ ch_calls' = ch_calls + 1
    /\ ch_inserted' = ch_inserted + 1
    /\ ch_rows' = KeepNewest(InsertChat(ch_rows, role, ch_inserted + 1), MAX_CHAT_HISTORY)
    /\ UNCHANGED exceptChat

\* Database::clear_ai_chat
ClearAiChat ==
    /\ ch_calls < MaxChatCalls
    /\ ch_calls' = ch_calls + 1
    /\ ch_inserted' = 0
    /\ ch_rows' = {}
    /\ UNCHANGED exceptChat

NextChat ==
    \/ \E role \in {"user", "model"} : AddAiChatMessage(role)
    \/ ClearAiChat

InitChat == ChatInit /\ CleanupIdle /\ PlanIdle /\ CacheIdle /\ LimiterIdle /\ ApiIdle /\ BotIdle /\ NotifierIdle /\ IngestIdle /\ ProfilesIdle /\ FetchIdle /\ AuthIdle /\ PostChatIdle /\ ExtractIdle /\ BuildIdle /\ ResolveIdle /\ ProgressionIdle /\ StoreIdle /\ MorningIdle /\ ConversationIdle /\ CloudIdle

SpecChat == InitChat /\ [][NextChat]_vars

\* -------------------------------------------------------------------- C14

\* The row with the smallest id.
OldestRow(rows) == CHOOSE r \in rows : \A q \in rows : r.id <= q.id

MaxActivities == 2
MaxSets == 2

\* GarminSet: set_type, repetition_count, weight (grams), exercises (the
\* categories).
GarminSet(set_type, repetition_count, weight, exercises) ==
    [set_type |-> set_type, repetition_count |-> repetition_count,
     weight |-> weight, exercises |-> exercises]

GarminSets ==
    { GarminSet("ACTIVE", Some(8), Some(60500), <<"BENCH_PRESS">>),
      GarminSet("ACTIVE", Some(8), NoneNum, <<"PULL_UP", "ROW">>),
      GarminSet("ACTIVE", NoneNum, NoneNum, <<"PLANK">>),
      GarminSet("ACTIVE", Some(0), Some(60500), <<"BENCH_PRESS">>),
      GarminSet("ACTIVE", Some(8), Some(60500), <<>>),
      GarminSet("REST", NoneNum, NoneNum, <<>>) }

\* GarminActivity.sets: absent, GarminSetsData::Empty, or ::Details.
SetsData ==
    {[kind |-> "none", exercise_sets |-> <<>>], [kind |-> "empty", exercise_sets |-> <<>>]}
    \cup {[kind |-> "details", exercise_sets |-> sets] :
             sets \in UNION {[1..n -> GarminSets] : n \in 0..MaxSets}}

\* GarminActivity: id, start_time, sets.
GarminActivities ==
    {[id |-> id, start_time |-> "2026-03-01 10:00:00", sets |-> sets] :
        id \in {NoneNum, Some(1), Some(2)}, sets \in SetsData}

\* weight / 1000.0: grams to kilograms, as kilograms and thousandths.
GramsToKg(grams) == [kg |-> grams \div 1000, thousandths |-> grams % 1000]

\* C15, mutant of InsertOrIgnore: INSERT OR REPLACE.
InsertOrReplace(table, activity_id, date, exercise_name, weight, reps, set_index) ==
    IF ~activity_id.some THEN table
    ELSE {r \in table : ~(r.activity_id = activity_id.v /\ r.set_index = set_index)}
         \cup {[id |-> MaxId(table) + 1, activity_id |-> activity_id.v, date |-> date,
                exercise_name |-> exercise_name, weight |-> weight, reps |-> reps,
                set_index |-> set_index]}

\* INSERT OR IGNORE INTO exercise_history: a NULL activity_id (NOT NULL) and
\* a taken (activity_id, set_index) (UNIQUE) skip the row.
InsertOrIgnore(table, activity_id, date, exercise_name, weight, reps, set_index) ==
    IF ~activity_id.some THEN table
    ELSE IF \E r \in table : r.activity_id = activity_id.v /\ r.set_index = set_index
       THEN table
    ELSE table \cup {[id |-> MaxId(table) + 1, activity_id |-> activity_id.v, date |-> date,
                      exercise_name |-> exercise_name, weight |-> weight, reps |-> reps,
                      set_index |-> set_index]}

\* The body of the loop of insert_activity for the set at `index` (from 0).
InsertSet(table, activity, set, index) ==
    IF set.set_type # "ACTIVE" THEN table
    ELSE IF set.exercises = <<>> THEN table
    ELSE IF ~(set.repetition_count.some /\ set.repetition_count.v > 0) THEN table
    ELSE InsertOrIgnore(table, activity.id, activity.start_time, set.exercises[1],
                        GramsToKg(IF set.weight.some THEN set.weight.v ELSE 0),
                        set.repetition_count.v, index)

RECURSIVE InsertSetsFrom(_, _, _)
\* The loop of insert_activity from the set at position i (from 1) on.
InsertSetsFrom(table, activity, i) ==
    IF i > Len(activity.sets.exercise_sets) THEN table
    ELSE InsertSetsFrom(InsertSet(table, activity, activity.sets.exercise_sets[i], i - 1),
                        activity, i + 1)

\* Database::insert_activity
InsertActivity(table, activity) ==
    IF activity.sets.kind = "details" THEN InsertSetsFrom(table, activity, 1) ELSE table

\* A row an earlier run has stored for set 0 of activity 1.
OldRow ==
    [id |-> 1, activity_id |-> 1, date |-> "2026-03-01 10:00:00",
     exercise_name |-> "SQUAT", weight |-> GramsToKg(80000), reps |-> 5, set_index |-> 0]

IngestInit ==
    /\ ig_snapshot \in UNION {[1..n -> GarminActivities] : n \in 1..MaxActivities}
    /\ ig_table \in {{}, {OldRow}}
    /\ ig_pass = 1
    /\ ig_next = 1
    /\ ig_after_first = {}

\* One turn of `for act in &detailed_activities`, in the first run of the
\* pipeline over the snapshot or in the second.
IngestActivity ==
    /\ ig_pass <= 2
    /\ ig_table' = InsertActivity(ig_table, ig_snapshot[ig_next])
    /\ IF ig_next < Len(ig_snapshot)
          THEN /\ ig_next' = ig_next + 1
               /\ UNCHANGED <<ig_pass, ig_after_first>>
          ELSE /\ ig_next' = 1
               /\ ig_pass' = ig_pass + 1
               /\ ig_after_first' = IF ig_pass = 1 THEN ig_table' ELSE ig_after_first
    /\ UNCHANGED ig_snapshot
    /\ UNCHANGED exceptIngest

NextIngest == IngestActivity

InitIngest == IngestInit /\ CleanupIdle /\ PlanIdle /\ CacheIdle /\ LimiterIdle /\ ApiIdle /\ BotIdle /\ NotifierIdle /\ ChatIdle /\ ProfilesIdle /\ FetchIdle /\ AuthIdle /\ PostChatIdle /\ ExtractIdle /\ BuildIdle /\ ResolveIdle /\ ProgressionIdle /\ StoreIdle /\ MorningIdle /\ ConversationIdle /\ CloudIdle

SpecIngest == InitIngest /\ [][NextIngest]_vars

\* ---------------------------------------------------------------- C15, C16

\* C15: from the end of the first ingestion of a snapshot on, through and
\* after the second ingestion, exercise_history is as the first left it.
C15_SecondIngestionChangesNothing ==
    ig_pass >= 2 => ig_table = ig_after_first

\* C15: the second ingestion of a snapshot that gave two rows is done.
C15_Witness ==
    /\ ig_pass = 3
    /\ Cardinality(ig_table) >= 2
    /\ ig_table = ig_after_first
    /\ \E r \in ig_table : r.weight = [kg |-> 60, thousandths |-> 500]

\* C16: after the ingestion of a snapshot, every ACTIVE set of every activity
\* with set details has exactly one row with the activity's id and the set's
\* index.
C16_OneRowPerActiveSet ==
    ig_pass >= 2 =>
       \A a \in 1..Len(ig_snapshot) :
          \A i \in 1..Len(ig_snapshot[a].sets.exercise_sets) :
             ig_snapshot[a].sets.exercise_sets[i].set_type = "ACTIVE" =>
                /\ ig_snapshot[a].id.some
                /\ Cardinality({r \in ig_table : /\ r.activity_id = ig_snapshot[a].id.v
                                                 /\ r.set_index = i - 1}) = 1

\* =========================================================================
\* profiles document: GET and PUT /api/profiles (api.rs)
\* =========================================================================

MAX_PROFILE_NAME_LEN == 64
MAX_PROFILE_ITEMS == 64
MAX_PROFILE_ITEM_LEN == 256

PutTasks == {"p", "q"}

\* A ProfileConfigPayload. Its four lists (goals, constraints,
\* available_equipment, auto_analyze_sports) go through the same
\* normalize_profile_list; the model carries one of them.
Profile(name, goals) == [name |-> name, goals |-> goals]
\* A ProfilesPayload: the map is the set of its (name, profile) entries, the
\* names of one payload being distinct as the keys of a BTreeMap are.
ProfilesPayload(active_profile, profiles) ==
    [active_profile |-> active_profile, profiles |-> profiles]
Keys(profiles) == {p.name : p \in profiles}

\* normalize_profile_list: too many entries is an error; the entries are
\* trimmed, the empty ones dropped, and one longer than the limit is an error.
RECURSIVE NormalizedItems(_)
NormalizedItems(values) ==
    IF values = <<>> THEN <<>>
    ELSE IF Trim(Head(values)) = "" THEN NormalizedItems(Tail(values))
    ELSE <<Trim(Head(values))>> \o NormalizedItems(Tail(values))

ListTooLong(values) == Len(values) > MAX_PROFILE_ITEMS
ItemTooLong(values) ==
    \E i \in 1..Len(values) : Len(Trim(values[i])) > MAX_PROFILE_ITEM_LEN
NormalizeProfileListFails(values) == ListTooLong(values) \/ ItemTooLong(values)

\* validate_profiles_payload, the trimmed active_profile given. The loop over
\* the map returns at the first entry in key order that fails; the model
\* reports the failure of the loop without saying which entry's message it is.
ValidateTrimmed_NoKeyCheck(payload, active_profile) ==
    IF active_profile = "" THEN Err("active_profile cannot be empty.")
    ELSE IF Len(active_profile) > MAX_PROFILE_NAME_LEN
    THEN Err("active_profile exceeds 64 characters.")
    ELSE IF payload.profiles = {}
    THEN Err("profiles must include at least one profile.")
    ELSE IF \E p \in payload.profiles :
                \/ Trim(p.name) = ""
                \/ Len(Trim(p.name)) > MAX_PROFILE_NAME_LEN
                \/ \E q \in payload.profiles : q # p /\ Trim(q.name) = Trim(p.name)
                \/ NormalizeProfileListFails(p.goals)
    THEN Err("invalid profile entry.")
    ELSE Ok(ProfilesPayload(active_profile,
                {Profile(Trim(p.name), NormalizedItems(p.goals)) : p \in payload.profiles}))

ValidateTrimmed(payload, active_profile) ==
    IF active_profile = "" THEN Err("active_profile cannot be empty.")
    ELSE IF Len(active_profile) > MAX_PROFILE_NAME_LEN
    THEN Err("active_profile exceeds 64 characters.")
    ELSE IF payload.profiles = {}
    THEN Err("profiles must include at least one profile.")
    ELSE IF \E p \in payload.profiles :
                \/ Trim(p.name) = ""
                \/ Len(Trim(p.name)) > MAX_PROFILE_NAME_LEN
                \/ \E q \in payload.profiles : q # p /\ Trim(q.name) = Trim(p.name)
                \/ NormalizeProfileListFails(p.goals)
    THEN Err("invalid profile entry.")
    ELSE IF active_profile \notin {Trim(p.name) : p \in payload.profiles}
    THEN Err("active_profile must reference an existing profile.")
    ELSE Ok(ProfilesPayload(active_profile,
                {Profile(Trim(p.name), NormalizedItems(p.goals)) : p \in payload.profiles}))

validate_profiles_payload(payload) ==
    ValidateTrimmed(payload, Trim(payload.active_profile))

\* ---- the requests and the files the model draws from

\* A name of 65 characters and an entry of 257.
Chars16 == "nnnnnnnnnnnnnnnn"
Chars64 == Chars16 \o Chars16 \o Chars16 \o Chars16
LongName == Chars64 \o "n"
LongItem == Chars64 \o Chars64 \o Chars64 \o Chars64 \o "n"
ManyItems == [i \in 1..(MAX_PROFILE_ITEMS + 1) |-> "g"]
Goals == <<" run ", " ">>

ProfileMaps ==
    { {},
      {Profile("a", <<>>)},
      {Profile("a", Goals)},
      {Profile("a", ManyItems)},
      {Profile("a", <<LongItem>>)},
      {Profile(" a ", Goals)},
      {Profile("a", <<>>), Profile(" a ", <<>>)},
      {Profile("a", <<>>), Profile("b", Goals)},
      {Profile(" ", <<>>)},
      {Profile(LongName, <<>>)} }
ActiveProfiles == {"a", " a ", "", " ", "b", LongName}
Payloads ==
    {ProfilesPayload(active, profiles) : active \in ActiveProfiles, profiles \in ProfileMaps}

\* What profiles.json can hold before the first request: the file is edited
\* by hand as well, so any document, bytes that do not parse, or no file.
HandEdited ==
    { ProfilesPayload("a", {Profile("a", <<>>)}),
      ProfilesPayload(" a ", {Profile("a ", Goals)}),
      ProfilesPayload("z", {Profile("a", <<>>)}),
      ProfilesPayload("", {Profile("a", <<>>)}),
      ProfilesPayload("a", {}) }
InitialFiles ==
    {Content("doc", doc) : doc \in HandEdited} \cup {Content("garbage", NoDoc)}

Put(payload, parsed) ==
    [payload |-> payload, parsed |-> parsed, pc |-> "validate", fd |-> 0,
     doc |-> NoDoc, status |-> 0]

\* Either one PUT with any payload on any file, or two PUTs running
\* concurrently, each with a valid document of its own, on a valid file.
ProfilesInit ==
    /\ pf_mount \in {"plain", "bind", "readonly"}
    /\ pf_get = NoGet
    /\ \/ /\ \E content \in InitialFiles :
                /\ pf_initial = content
                /\ pf_inodes = <<content>>
                /\ pf_dir = [profiles |-> 1, tmp |-> 0]
          /\ \E payload \in Payloads :
                pf_task = [t \in PutTasks |->
                              IF t = "p" THEN Put(payload, TRUE) ELSE NoPut]
       \/ /\ pf_initial = Content("absent", NoDoc)
          /\ pf_inodes = <<>>
          /\ pf_dir = [profiles |-> 0, tmp |-> 0]
          /\ \E parsed \in BOOLEAN :
                pf_task = [t \in PutTasks |->
                              IF t = "p"
                              THEN Put(ProfilesPayload("a", {Profile("a", <<>>)}), parsed)
                              ELSE NoPut]
       \/ /\ pf_initial = Content("doc", ProfilesPayload("a", {Profile("a", <<>>)}))
          /\ pf_inodes = <<pf_initial>>
          /\ pf_dir = [profiles |-> 1, tmp |-> 0]
          /\ pf_task = [t \in PutTasks |->
                           IF t = "p"
                           THEN Put(ProfilesPayload("a", {Profile("a", Goals)}), TRUE)
                           ELSE Put(ProfilesPayload("b", {Profile("b", <<>>)}), TRUE)]

\* ---- the file system

\* The content a reader of the path gets.
ReadPath(inode) ==
    IF inode = 0 THEN Content("absent", NoDoc) ELSE pf_inodes[inode]

\* File::create: an existing file is truncated, a missing one is created
\* empty; the writer keeps the file open.
CreateFile(t, name, next_pc) ==
    IF pf_dir[name] = 0
    THEN /\ pf_inodes' = Append(pf_inodes, Content("empty", NoDoc))
         /\ pf_dir' = [pf_dir EXCEPT ![name] = Len(pf_inodes) + 1]
         /\ pf_task' = [pf_task EXCEPT ![t].fd = Len(pf_inodes) + 1, ![t].pc = next_pc]
    ELSE /\ pf_inodes' = [pf_inodes EXCEPT ![pf_dir[name]] = Content("empty", NoDoc)]
         /\ pf_dir' = pf_dir
         /\ pf_task' = [pf_task EXCEPT ![t].fd = pf_dir[name], ![t].pc = next_pc]

\* write_all on the open file.
WriteAll(t, next_pc) ==
    /\ pf_inodes' = [pf_inodes EXCEPT ![pf_task[t].fd] = Content("doc", pf_task[t].doc)]
    /\ pf_task' = [pf_task EXCEPT ![t].pc = next_pc]
    /\ pf_dir' = pf_dir

Answer(t, status) ==
    pf_task' = [pf_task EXCEPT ![t].pc = "done", ![t].status = status]

\* ---- PUT /api/profiles

\* update_profiles up to the call of write_file_atomically.
PutValidate(t) ==
    /\ pf_task[t].pc = "validate"
    /\ IF ~pf_task[t].parsed
       THEN Answer(t, 400)
       ELSE IF ~validate_profiles_payload(pf_task[t].payload).ok
       THEN Answer(t, 400)
       ELSE pf_task' = [pf_task EXCEPT
                ![t].pc = "create_tmp",
                ![t].doc = validate_profiles_payload(pf_task[t].payload).value]
    /\ UNCHANGED <<pf_mount, pf_inodes, pf_dir, pf_initial, pf_get>>
    /\ UNCHANGED exceptProfiles

\* std::fs::write(&tmp_path, content)?, its open.
PutCreateTmp(t) ==
    /\ pf_task[t].pc = "create_tmp"
    /\ IF pf_mount = "readonly"
       THEN Answer(t, 500) /\ UNCHANGED <<pf_inodes, pf_dir>>
       ELSE CreateFile(t, "tmp", "write_tmp")
    /\ UNCHANGED <<pf_mount, pf_initial, pf_get>>
    /\ UNCHANGED exceptProfiles

\* std::fs::write(&tmp_path, content)?, its write.
PutWriteTmp(t) ==
    /\ pf_task[t].pc = "write_tmp"
    /\ WriteAll(t, "rename")
    /\ UNCHANGED <<pf_mount, pf_initial, pf_get>>
    /\ UNCHANGED exceptProfiles

\* std::fs::rename(&tmp_path, path): ENOENT when the temp file is gone, EBUSY
\* on a bind-mounted profiles.json, else the atomic replace.
PutRename(t) ==
    /\ pf_task[t].pc = "rename"
    /\ IF pf_dir.tmp = 0
       THEN Answer(t, 500) /\ UNCHANGED <<pf_inodes, pf_dir>>
       ELSE IF pf_mount = "bind"
       THEN /\ pf_task' = [pf_task EXCEPT ![t].pc = "fallback_create"]
            /\ UNCHANGED <<pf_inodes, pf_dir>>
       ELSE /\ pf_dir' = [profiles |-> pf_dir.tmp, tmp |-> 0]
            /\ Answer(t, 200)
            /\ UNCHANGED pf_inodes
    /\ UNCHANGED <<pf_mount, pf_initial, pf_get>>
    /\ UNCHANGED exceptProfiles

\* The fallback std::fs::write(path, content)?, its open.
PutFallbackCreate(t) ==
    /\ pf_task[t].pc = "fallback_create"
    /\ CreateFile(t, "profiles", "fallback_write")
    /\ UNCHANGED <<pf_mount, pf_initial, pf_get>>
    /\ UNCHANGED exceptProfiles

\* The fallback std::fs::write(path, content)?, its write.
PutFallbackWrite(t) ==
    /\ pf_task[t].pc = "fallback_write"
    /\ WriteAll(t, "fallback_remove")
    /\ UNCHANGED <<pf_mount, pf_initial, pf_get>>
    /\ UNCHANGED exceptProfiles

\* let _ = std::fs::remove_file(&tmp_path); return Ok(()).
PutFallbackRemove(t) ==
    /\ pf_task[t].pc = "fallback_remove"
    /\ pf_dir' = [pf_dir EXCEPT !.tmp = 0]
    /\ Answer(t, 200)
    /\ UNCHANGED <<pf_mount, pf_inodes, pf_initial, pf_get>>
    /\ UNCHANGED exceptProfiles

\* ---- GET /api/profiles

GetAnswer(content) ==
    IF content.kind # "doc" THEN [read |-> content, status |-> 500, doc |-> NoDoc]
    ELSE IF ~validate_profiles_payload(content.doc).ok
    THEN [read |-> content, status |-> 500, doc |-> NoDoc]
    ELSE [read |-> content, status |-> 200,
          doc |-> validate_profiles_payload(content.doc).value]

get_profiles ==
    /\ pf_get' = GetAnswer(ReadPath(pf_dir.profiles))
    /\ UNCHANGED <<pf_mount, pf_inodes, pf_dir, pf_initial, pf_task>>
    /\ UNCHANGED exceptProfiles

NextProfiles ==
    \/ \E t \in PutTasks : PutValidate(t)
    \/ \E t \in PutTasks : PutCreateTmp(t)
    \/ \E t \in PutTasks : PutWriteTmp(t)
    \/ \E t \in PutTasks : PutRename(t)
    \/ \E t \in PutTasks : PutFallbackCreate(t)
    \/ \E t \in PutTasks : PutFallbackWrite(t)
    \/ \E t \in PutTasks : PutFallbackRemove(t)
    \/ get_profiles

InitProfiles == ProfilesInit /\ CleanupIdle /\ PlanIdle /\ CacheIdle /\ LimiterIdle /\ ApiIdle /\ BotIdle /\ NotifierIdle /\ ChatIdle /\ IngestIdle /\ FetchIdle /\ AuthIdle /\ PostChatIdle /\ ExtractIdle /\ BuildIdle /\ ResolveIdle /\ ProgressionIdle /\ StoreIdle /\ MorningIdle /\ ConversationIdle /\ CloudIdle
SpecProfiles == InitProfiles /\ [][NextProfiles]_vars

\* ---- claims on the profiles document

\* active_profile is non-empty and a key of a non-empty map.
WellFormed(doc) ==
    /\ doc.active_profile # ""
    /\ doc.profiles # {}
    /\ doc.active_profile \in Keys(doc.profiles)

\* The same read as the code reads a received document: names are compared
\* after trimming.
Violates(payload) ==
    \/ Trim(payload.active_profile) = ""
    \/ payload.profiles = {}
    \/ Trim(payload.active_profile) \notin {Trim(p.name) : p \in payload.profiles}

Rejected(t) == pf_task[t].status = 400

NewDocuments ==
    {Content("doc", pf_task[t].doc) : t \in {u \in PutTasks : pf_task[u].fd # 0}}

\* C18: a reader of profiles.json sees the complete previous document or one
\* complete validated new document, and once a PUT has answered success the
\* file holds its document or that of another PUT.
C18_ReadersSeeCompleteDocument ==
    /\ pf_get.status # 0 => pf_get.read \in {pf_initial} \cup NewDocuments
    /\ (\E t \in PutTasks : pf_task[t].status = 200)
          => ReadPath(pf_dir.profiles) \in NewDocuments

\* =========================================================================
\* fetch_data, the requests of one snapshot (garmin_client.rs)
\* =========================================================================

\* ---- what a healthy cloud answers

UserDisplayName == "ann"

ActivitiesBody ==
    JArr(<< JObj(("activityId" :> JInt(1)) @@ ("activityName" :> JStr("Run"))) >>)
PlansBody ==
    JArr(<< JObj(("name" :> JStr("10k")) @@ ("endDate" :> JStr("2025-03-01"))
                 @@ ("type" :> JStr("running"))) >>)
UserProfileBody ==
    JObj(("displayName" :> JStr(UserDisplayName)) @@ ("weight" :> JFloat(700))
         @@ ("height" :> JFloat(1800)) @@ ("birthDate" :> JStr("1990-01-01"))
         @@ ("vo2MaxRunning" :> JFloat(500)))
MaxMetricsBody ==
    JObj(("vo2MaxPrecise" :> JFloat(503)) @@ ("fitnessAge" :> JInt(30)))
\* The calendar of the month asked by request n: a workout of its own, and a
\* race that every month lists.
MonthTitle(n) == "W" \o NatToStr(n)
CalendarBody(n) ==
    JObj("calendarItems" :>
           JArr(<< CalendarItem(MonthTitle(n), "2025-01-02", "workout"),
                   CalendarItem("City Race", "2025-01-05", "race"),
                   CalendarItem("Morning Run", "2025-01-01", "activity") >>))
BodyBatteryBody ==
    JArr(<< JObj("bodyBatteryValuesArray" :>
                   JArr(<< JArr(<<JInt(1000), JInt(40)>>),
                           JArr(<<JInt(2000), JInt(55)>>) >>)) >>)
SleepBody ==
    JObj("dailySleepDTO" :>
           JObj("sleepScores" :> JObj("overall" :> JObj("value" :> JInt(80)))))
TrainingReadinessBody == JArr(<< JObj("score" :> JInt(70)) >>)
HrvBody ==
    JObj("hrvSummary" :>
           JObj(("status" :> JStr("BALANCED")) @@ ("weeklyAvg" :> JInt(60))
                @@ ("lastNightAvg" :> JInt(58))))
RhrTrendBody ==
    JArr(<< JObj("value" :> JInt(50)),
            JObj("values" :> JObj("restingHR" :> JInt(51))) >>)

\* The answers to a request that is addressed by a display name: the data of
\* the user under the user's name; under another name the service has no such
\* resource and answers with an error status or with a body without data.
NamedAnswers(display_name, body) ==
    IF display_name = UserDisplayName THEN {Ok(body)}
    ELSE {Err("404 Not Found"), Ok(JObj("userProfileId" :> JNull))}

\* ---- how fetch_data reads the answers

\* get_activities: a body that is no list of activities is an error as well.
ActivitiesOf(answer) ==
    IF answer.ok /\ answer.value.t = "arr" THEN answer.value.v ELSE <<>>

\* plans.is_array(), then from_value::<Vec<GarminPlan>>(plans).unwrap_or_default()
PlansOf(answer) ==
    IF /\ answer.ok
       /\ answer.value.t = "arr"
       /\ \A i \in 1..Len(answer.value.v) :
             /\ AsStr(Get(answer.value.v[i], "name")) # None
             /\ AsStr(Get(answer.value.v[i], "endDate")) # None
             /\ AsStr(Get(answer.value.v[i], "type")) # None
    THEN answer.value.v ELSE <<>>

DisplayNameOf(answer) ==
    IF answer.ok /\ AsStr(Get(answer.value, "displayName")) # None
    THEN AsStr(Get(answer.value, "displayName")) ELSE ""

OrNull(x) == IF IsSome(x) THEN x ELSE JNull

\* serde_json::from_value::<Option<GarminProfile>>(v).unwrap_or(None)
UserProfileOf(answer) ==
    IF answer.ok /\ answer.value.t = "obj"
    THEN JObj(("weight" :> OrNull(Get(answer.value, "weight")))
              @@ ("height" :> OrNull(Get(answer.value, "height")))
              @@ ("birthDate" :> OrNull(Get(answer.value, "birthDate")))
              @@ ("vo2MaxRunning" :> OrNull(Get(answer.value, "vo2MaxRunning"))))
    ELSE JNull

\* serde_json::from_value::<Option<GarminMaxMetrics>>(v).unwrap_or(None)
MaxMetricsOf(answer) ==
    IF answer.ok /\ answer.value.t = "obj"
    THEN JObj(("vo2MaxPrecise" :> OrNull(Get(answer.value, "vo2MaxPrecise")))
              @@ ("fitnessAge" :> OrNull(Get(answer.value, "fitnessAge"))))
    ELSE JNull

CalendarItemsOf(answer) ==
    IF answer.ok /\ Get(answer.value, "calendarItems").t = "arr"
    THEN Get(answer.value, "calendarItems").v ELSE <<>>

\* The date_title keys of the workouts kept so far (seen_keys).
SeenKeys(scheduled_workouts) ==
    {scheduled_workouts[i].date \o "_" \o scheduled_workouts[i].title :
        i \in 1..Len(scheduled_workouts)}

\* Option<&Value>::and_then(as_i64).map(|v| v as i32)
AsI32(x) == IF IsI64(x) THEN Some(x.v) ELSE NoneNum

LastOf(x) == IF x.t = "arr" /\ x.v # <<>> THEN x.v[Len(x.v)] ELSE JAbsent
FirstOf(x) == IF x.t = "arr" /\ x.v # <<>> THEN x.v[1] ELSE JAbsent

BodyBatteryOf(answer, before) ==
    IF /\ answer.ok
       /\ LastOf(Get(LastOf(answer.value), "bodyBatteryValuesArray")).t = "arr"
       /\ Len(LastOf(Get(LastOf(answer.value), "bodyBatteryValuesArray")).v) >= 2
    THEN AsI32(LastOf(Get(LastOf(answer.value), "bodyBatteryValuesArray")).v[2])
    ELSE before

SleepScoreOf(answer, before) ==
    IF answer.ok
    THEN AsI32(Get(Get(Get(Get(answer.value, "dailySleepDTO"), "sleepScores"),
                       "overall"), "value"))
    ELSE before

TrainingReadinessOf(answer, before) ==
    IF answer.ok /\ IsSome(FirstOf(answer.value))
    THEN AsI32(Get(FirstOf(answer.value), "score"))
    ELSE before

RECURSIVE RhrValues(_)
RhrValues(items) ==
    IF items = <<>> THEN <<>>
    ELSE IF IsI64(Get(Head(items), "value"))
    THEN <<Get(Head(items), "value").v>> \o RhrValues(Tail(items))
    ELSE IF IsI64(Get(Get(Head(items), "values"), "restingHR"))
    THEN <<Get(Get(Head(items), "values"), "restingHR").v>> \o RhrValues(Tail(items))
    ELSE RhrValues(Tail(items))

MetricsMapOf(value) ==
    Get(Get(Get(value, "allMetrics"), "metricsMap"), "WELLNESS_RESTING_HEART_RATE")

RhrTrendOf(answer, before) ==
    IF ~answer.ok THEN before
    ELSE IF answer.value.t = "arr" THEN RhrValues(answer.value.v)
    ELSE IF MetricsMapOf(answer.value).t = "arr"
    THEN RhrValues(MetricsMapOf(answer.value).v)
    ELSE before

\* serde_json::to_string(&response)
SerializeSnapshot(response) ==
    JObj(("activities" :> JArr(response.activities))
         @@ ("plans" :> JArr(response.plans))
         @@ ("user_profile" :> response.user_profile)
         @@ ("max_metrics" :> response.max_metrics)
         @@ ("scheduled_workouts" :>
                JArr([i \in 1..Len(response.scheduled_workouts) |->
                        JObj(("title" :> JOptStr(response.scheduled_workouts[i].title))
                             @@ ("date" :> JStr(response.scheduled_workouts[i].date))
                             @@ ("type" :>
                                   JOptStr(response.scheduled_workouts[i].item_type)))]))
         @@ ("recovery_metrics" :>
                JObj(("sleep_score" :> JOptInt(response.recovery_metrics.sleep_score))
                     @@ ("current_body_battery" :>
                            JOptInt(response.recovery_metrics.current_body_battery))
                     @@ ("training_readiness" :>
                            JOptInt(response.recovery_metrics.training_readiness))
                     @@ ("hrv_status" :> JOptStr(response.recovery_metrics.hrv_status))
                     @@ ("hrv_weekly_avg" :>
                            JOptInt(response.recovery_metrics.hrv_weekly_avg))
                     @@ ("hrv_last_night_avg" :>
                            JOptInt(response.recovery_metrics.hrv_last_night_avg))
                     @@ ("rhr_trend" :>
                            JArr([i \in 1..Len(response.recovery_metrics.rhr_trend) |->
                                    JInt(response.recovery_metrics.rhr_trend[i])])))))

\* ---- the call

\* The row the call finds: none, one older than an hour, or a fresh one.
FetchNow == CACHE_TTL
FetchInit ==
    /\ ft_is_test \in BOOLEAN
    /\ ft_cache \in {NoSnapshotRow}
          \cup {[present |-> TRUE, data |-> SerializeSnapshot(EmptyResponse),
                 updated_at |-> at] : at \in {0, ClockStep}}
    /\ ft_pc = "begin"
    /\ ft_next = 1
    /\ ft_failed = {}
    /\ ft_display_name = ""
    /\ ft_response = EmptyResponse
    /\ ft_result = NoResult

\* The answers to request n: an error of any request the cloud chooses to
\* fail, else what the service holds.
Answers(healthy, healthy_answers) ==
    IF healthy THEN healthy_answers ELSE {Err("503 Service Unavailable")}

\* What every request leaves behind: the next request, the failed ones.
Requested(n, healthy) ==
    /\ ft_next' = n + 1
    /\ ft_failed' = IF healthy THEN ft_failed ELSE ft_failed \cup {n}
    /\ ft_pc' = IF n = Len(FetchEndpoints) THEN "save" ELSE "network"
    /\ UNCHANGED <<ft_is_test, ft_cache, ft_result>>
    /\ UNCHANGED exceptFetch

AtRequest(endpoint) ==
    /\ ft_pc = "network"
    /\ FetchEndpoints[ft_next] = endpoint

\* Step 1: outside test mode a fresh row is parsed and returned and no request
\* is sent; the rows of FetchInit hold the serialized empty response.
FetchBegin ==
    /\ ft_pc = "begin"
    /\ IF ~ft_is_test /\ ft_cache.present /\ CacheFresh(FetchNow, ft_cache.updated_at)
       THEN /\ ft_pc' = "ret"
            /\ ft_result' = [returned |-> TRUE, ok |-> TRUE, response |-> EmptyResponse]
       ELSE /\ ft_pc' = "network"
            /\ ft_result' = ft_result
    /\ UNCHANGED <<ft_is_test, ft_cache, ft_next, ft_failed, ft_display_name, ft_response>>
    /\ UNCHANGED exceptFetch

FetchActivities ==
    /\ AtRequest("activities")
    /\ \E healthy \in BOOLEAN :
          /\ \E answer \in Answers(healthy, {Ok(ActivitiesBody)}) :
                ft_response' = [ft_response EXCEPT !.activities = ActivitiesOf(answer)]
          /\ Requested(ft_next, healthy)
    /\ UNCHANGED ft_display_name

FetchTrainingPlans ==
    /\ AtRequest("training_plans")
    /\ \E healthy \in BOOLEAN :
          /\ \E answer \in Answers(healthy, {Ok(PlansBody)}) :
                ft_response' = [ft_response EXCEPT !.plans = PlansOf(answer)]
          /\ Requested(ft_next, healthy)
    /\ UNCHANGED ft_display_name

FetchUserProfile ==
    /\ AtRequest("user_profile")
    /\ \E healthy \in BOOLEAN :
          /\ \E answer \in Answers(healthy, {Ok(UserProfileBody)}) :
                /\ ft_response' = [ft_response EXCEPT !.user_profile = UserProfileOf(answer)]
                /\ ft_display_name' = DisplayNameOf(answer)
          /\ Requested(ft_next, healthy)

FetchMaxMetrics ==
    /\ AtRequest("max_metrics")
    /\ \E healthy \in BOOLEAN :
          /\ \E answer \in Answers(healthy, {Ok(MaxMetricsBody)}) :
                ft_response' = [ft_response EXCEPT !.max_metrics = MaxMetricsOf(answer)]
          /\ Requested(ft_next, healthy)
    /\ UNCHANGED ft_display_name

\* One of the six months of the calendar loop.
FetchCalendar ==
    /\ AtRequest("calendar")
    /\ \E healthy \in BOOLEAN :
          /\ \E answer \in Answers(healthy, {Ok(CalendarBody(ft_next))}) :
                ft_response' = [ft_response EXCEPT !.scheduled_workouts =
                    ScheduledWorkouts(CalendarItemsOf(answer), SeenKeys(@), @)]
          /\ Requested(ft_next, healthy)
    /\ UNCHANGED ft_display_name

FetchBodyBattery ==
    /\ AtRequest("body_battery")
    /\ \E healthy \in BOOLEAN :
          /\ \E answer \in Answers(healthy, {Ok(BodyBatteryBody)}) :
                ft_response' = [ft_response EXCEPT !.recovery_metrics.current_body_battery =
                    BodyBatteryOf(answer, @)]
          /\ Requested(ft_next, healthy)
    /\ UNCHANGED ft_display_name

\* get_sleep_data(&display_name, &today_str)
FetchSleep ==
    /\ AtRequest("sleep")
    /\ \E healthy \in BOOLEAN :
          /\ \E answer \in Answers(healthy, NamedAnswers(ft_display_name, SleepBody)) :
                ft_response' = [ft_response EXCEPT !.recovery_metrics.sleep_score =
                    SleepScoreOf(answer, @)]
          /\ Requested(ft_next, healthy)
    /\ UNCHANGED ft_display_name

FetchTrainingReadiness ==
    /\ AtRequest("training_readiness")
    /\ \E healthy \in BOOLEAN :
          /\ \E answer \in Answers(healthy, {Ok(TrainingReadinessBody)}) :
                ft_response' = [ft_response EXCEPT !.recovery_metrics.training_readiness =
                    TrainingReadinessOf(answer, @)]
          /\ Requested(ft_next, healthy)
    /\ UNCHANGED ft_display_name

FetchHrv ==
    /\ AtRequest("hrv")
    /\ \E healthy \in BOOLEAN :
          /\ \E answer \in Answers(healthy, {Ok(HrvBody)}) :
                ft_response' =
                    IF answer.ok /\ IsSome(Get(answer.value, "hrvSummary"))
                    THEN [ft_response EXCEPT
                            !.recovery_metrics.hrv_status =
                                AsStr(Get(Get(answer.value, "hrvSummary"), "status")),
                            !.recovery_metrics.hrv_weekly_avg =
                                AsI32(Get(Get(answer.value, "hrvSummary"), "weeklyAvg")),
                            !.recovery_metrics.hrv_last_night_avg =
                                AsI32(Get(Get(answer.value, "hrvSummary"), "lastNightAvg"))]
                    ELSE ft_response
          /\ Requested(ft_next, healthy)
    /\ UNCHANGED ft_display_name

\* get_rhr_trend(&display_name, &seven_days_ago_str, &today_str)
FetchRhrTrend ==
    /\ AtRequest("rhr_trend")
    /\ \E healthy \in BOOLEAN :
          /\ \E answer \in Answers(healthy, NamedAnswers(ft_display_name, RhrTrendBody)) :
                ft_response' = [ft_response EXCEPT !.recovery_metrics.rhr_trend =
                    RhrTrendOf(answer, @)]
          /\ Requested(ft_next, healthy)
    /\ UNCHANGED ft_display_name

\* Step 3: the response is serialized and written to the row; a failed write
\* is logged only. The response is returned.
FetchSave ==
    /\ ft_pc = "save"
    /\ \E written \in BOOLEAN :
          ft_cache' = IF written
                      THEN [present |-> TRUE, data |-> SerializeSnapshot(ft_response),
                            updated_at |-> FetchNow]
                      ELSE ft_cache
    /\ ft_result' = [returned |-> TRUE, ok |-> TRUE, response |-> ft_response]
    /\ ft_pc' = "ret"
    /\ UNCHANGED <<ft_is_test, ft_next, ft_failed, ft_display_name, ft_response>>
    /\ UNCHANGED exceptFetch

NextFetch ==
    \/ FetchBegin
    \/ FetchActivities
    \/ FetchTrainingPlans
    \/ FetchUserProfile
    \/ FetchMaxMetrics
    \/ FetchCalendar
    \/ FetchBodyBattery
    \/ FetchSleep
    \/ FetchTrainingReadiness
    \/ FetchHrv
    \/ FetchRhrTrend
    \/ FetchSave

InitFetch == FetchInit /\ CleanupIdle /\ PlanIdle /\ CacheIdle /\ LimiterIdle /\ ApiIdle /\ BotIdle /\ NotifierIdle /\ ChatIdle /\ IngestIdle /\ ProfilesIdle /\ AuthIdle /\ PostChatIdle /\ ExtractIdle /\ BuildIdle /\ ResolveIdle /\ ProgressionIdle /\ StoreIdle /\ MorningIdle /\ ConversationIdle /\ CloudIdle
SpecFetch == InitFetch /\ [][NextFetch]_vars

\* ---- claims on the snapshot fetch

\* The cloud has failed no request of the endpoint.
Healthy(endpoint) ==
    \A n \in 1..Len(FetchEndpoints) : FetchEndpoints[n] = endpoint => n \notin ft_failed

\* fetch_data has asked the cloud and returned.
FetchedFromCloud == ft_pc = "ret" /\ ft_next = Len(FetchEndpoints) + 1

Titles(scheduled_workouts) ==
    {scheduled_workouts[i].title : i \in 1..Len(scheduled_workouts)}

\* C19: whatever requests the cloud fails, fetch_data returns a snapshot in
\* which the slice of every failed request is empty or None and the slice of
\* every other request holds what the cloud answered, and the row of the
\* cache holds that snapshot.
C19_FailedSlicesEmptyOthersPopulated ==
    FetchedFromCloud =>
        /\ ft_result = [returned |-> TRUE, ok |-> TRUE, response |-> ft_response]
        /\ ft_response.activities =
              IF Healthy("activities") THEN ActivitiesBody.v ELSE <<>>
        /\ ft_response.plans = IF Healthy("training_plans") THEN PlansBody.v ELSE <<>>
        /\ ft_response.user_profile # JNull <=> Healthy("user_profile")
        /\ ft_response.max_metrics # JNull <=> Healthy("max_metrics")
        /\ \A n \in 1..Len(FetchEndpoints) :
              FetchEndpoints[n] = "calendar" =>
                 (MonthTitle(n) \in Titles(ft_response.scheduled_workouts)
                    <=> n \notin ft_failed)
        /\ ft_response.recovery_metrics.current_body_battery =
              IF Healthy("body_battery") THEN Some(55) ELSE NoneNum
        /\ ft_response.recovery_metrics.sleep_score =
              IF Healthy("sleep") THEN Some(80) ELSE NoneNum
        /\ ft_response.recovery_metrics.training_readiness =
              IF Healthy("training_readiness") THEN Some(70) ELSE NoneNum
        /\ ft_response.recovery_metrics.hrv_status =
              IF Healthy("hrv") THEN "BALANCED" ELSE None
        /\ ft_response.recovery_metrics.rhr_trend =
              IF Healthy("rhr_trend") THEN <<50, 51>> ELSE <<>>
        /\ ft_cache.present
        /\ ft_cache.data = SerializeSnapshot(ft_response)

\* =========================================================================
\* The REST server: the token check in front of every handler (api.rs)
\* =========================================================================

\* The routes of run_server as <<path, method, handler>>.
Routes ==
    { <<"/api/progression", "GET", "get_progression">>,
      <<"/api/recovery", "GET", "get_recovery">>,
      <<"/api/recovery/history", "GET", "get_recovery_history">>,
      <<"/api/workouts/today", "GET", "get_today_workouts">>,
      <<"/api/workouts/upcoming", "GET", "get_upcoming_workouts">>,
      <<"/api/force-pull", "POST", "force_pull_data">>,
      <<"/api/generate", "POST", "trigger_generate">>,
      <<"/api/predict_duration", "POST", "predict_duration">>,
      <<"/api/analyze", "POST", "analyze_activity">>,
      <<"/api/muscle_heatmap", "GET", "get_muscle_heatmap">>,
      <<"/api/chat", "GET", "get_chat">>,
      <<"/api/chat", "POST", "post_chat">>,
      <<"/api/profiles", "GET", "get_profiles">>,
      <<"/api/profiles", "PUT", "update_profiles">> }

\* str::strip_prefix, as an Option.
StripPrefix(s, prefix) ==
    IF StartsWith(s, prefix) THEN SomeString(SubSeq(s, Len(prefix) + 1, Len(s)))
    ELSE NoString

\* HeaderValue::to_str, as an Option.
ToStr(value) == IF value.visible THEN SomeString(value.text) ELSE NoString

\* C21, mutant of has_valid_api_token: the Authorization value is compared
\* with or without its scheme.
has_valid_api_token_AnyScheme(headers, expected) ==
    \/ /\ headers.x_api_token.present
       /\ ToStr(headers.x_api_token) = SomeString(expected)
    \/ /\ headers.authorization.present
       /\ ToStr(headers.authorization).some
       /\ \/ ToStr(headers.authorization).v = expected
          \/ StripPrefix(ToStr(headers.authorization).v, "Bearer ") = SomeString(expected)

\* has_valid_api_token
has_valid_api_token(headers, expected) ==
    IF /\ headers.x_api_token.present
       /\ ToStr(headers.x_api_token).some
       /\ ToStr(headers.x_api_token).v = expected
       THEN TRUE
    ELSE IF /\ headers.authorization.present
            /\ ToStr(headers.authorization).some
            /\ StripPrefix(ToStr(headers.authorization).v, "Bearer ").some
       THEN StripPrefix(ToStr(headers.authorization).v, "Bearer ").v = expected
    ELSE FALSE

\* ---- the environments and the requests the model draws from

AuthEnvs ==
    { [set |-> FALSE, v |-> ""], [set |-> TRUE, v |-> ""], [set |-> TRUE, v |-> "  "],
      [set |-> TRUE, v |-> "s3cret"], [set |-> TRUE, v |-> " s3cret\n"] }

XApiTokenHeaders ==
    { NoHeader, HeaderValue("s3cret"), HeaderValue("wrong"), HeaderValue("S3CRET"),
      HeaderValue(""), HeaderValue("Bearer s3cret"), OpaqueHeaderValue("s3cret+") }

AuthorizationHeaders ==
    { NoHeader, HeaderValue("Bearer s3cret"), HeaderValue("Bearer wrong"),
      HeaderValue("bearer s3cret"), HeaderValue("s3cret"), HeaderValue("Bearer  s3cret"),
      HeaderValue("Bearer "), HeaderValue("Basic s3cret"), OpaqueHeaderValue("Bearer s3cret+") }

AuthMethods == {"GET", "POST", "PUT", "DELETE", "OPTIONS"}
AuthPaths == {"/api/chat", "/api/profiles", "/api/recovery", "/api/unknown"}

AuthInit ==
    /\ au_env \in AuthEnvs
    /\ au_api_auth_token = NoString
    /\ au_request \in [method : AuthMethods, path : AuthPaths,
                       x_api_token : XApiTokenHeaders,
                       authorization : AuthorizationHeaders]
    /\ au_call = [pc |-> "boot", status |-> 0, handler |-> None]

\* ---- the layers, outermost first

\* run_server: api_auth_token is the trimmed variable, None when that is empty.
RunServer ==
    /\ au_call.pc = "boot"
    /\ au_api_auth_token' =
          (IF au_env.set /\ Trim(au_env.v) # "" THEN SomeString(Trim(au_env.v))
           ELSE NoString)
    /\ au_call' = [au_call EXCEPT !.pc = "cors"]
    /\ UNCHANGED <<au_env, au_request>>
    /\ UNCHANGED exceptAuth

\* The CORS layer hands a request that is no preflight to the layer inside it.
CorsPass ==
    /\ au_call.pc = "cors"
    /\ au_call' = [au_call EXCEPT !.pc = "auth"]
    /\ UNCHANGED <<au_env, au_api_auth_token, au_request>>
    /\ UNCHANGED exceptAuth

\* The CORS layer answers a preflight itself.
CorsPreflight ==
    /\ au_call.pc = "cors"
    /\ au_request.method = "OPTIONS"
    /\ au_call' = [au_call EXCEPT !.pc = "done", !.status = 200]
    /\ UNCHANGED <<au_env, au_api_auth_token, au_request>>
    /\ UNCHANGED exceptAuth

\* auth_middleware
AuthMiddleware ==
    /\ au_call.pc = "auth"
    /\ au_call' =
          IF au_request.method = "OPTIONS" THEN [au_call EXCEPT !.pc = "route"]
          ELSE IF /\ au_api_auth_token.some
                  /\ ~has_valid_api_token(au_request, au_api_auth_token.v)
             THEN [au_call EXCEPT !.pc = "done", !.status = 401]
          ELSE [au_call EXCEPT !.pc = "route"]
    /\ UNCHANGED <<au_env, au_api_auth_token, au_request>>
    /\ UNCHANGED exceptAuth

\* The handler of a path and method, None when the router has none.
HandlerOf(path, method) ==
    IF \E r \in Routes : r[1] = path /\ r[2] = method
       THEN (CHOOSE r \in Routes : r[1] = path /\ r[2] = method)[3]
       ELSE None

\* The router: 404 for no such path, 405 for no such method on the path,
\* otherwise the handler runs and answers.
Dispatch ==
    /\ au_call.pc = "route"
    /\ \E status \in {200, 400, 500} :
          au_call' =
             IF HandlerOf(au_request.path, au_request.method) # None
                THEN [pc |-> "done", status |-> status,
                      handler |-> HandlerOf(au_request.path, au_request.method)]
             ELSE IF \E r \in Routes : r[1] = au_request.path
                THEN [au_call EXCEPT !.pc = "done", !.status = 405]
             ELSE [au_call EXCEPT !.pc = "done", !.status = 404]
    /\ UNCHANGED <<au_env, au_api_auth_token, au_request>>
    /\ UNCHANGED exceptAuth

NextAuth ==
    \/ RunServer
    \/ CorsPass
    \/ CorsPreflight
    \/ AuthMiddleware
    \/ Dispatch

InitAuth == AuthInit /\ CleanupIdle /\ PlanIdle /\ CacheIdle /\ LimiterIdle /\ ApiIdle /\ BotIdle /\ NotifierIdle /\ ChatIdle /\ IngestIdle /\ ProfilesIdle /\ FetchIdle /\ PostChatIdle /\ ExtractIdle /\ BuildIdle /\ ResolveIdle /\ ProgressionIdle /\ StoreIdle /\ MorningIdle /\ ConversationIdle /\ CloudIdle

SpecAuth == InitAuth /\ [][NextAuth]_vars

\* -------------------------------------------------------------------- C21

\* A token is configured: the variable is set and not blank.
TokenConfigured == au_env.set /\ Trim(au_env.v) # ""

\* The request carries one of the two valid credentials.
CarriesCredential ==
    \/ au_request.x_api_token = HeaderValue(Trim(au_env.v))
    \/ au_request.authorization = HeaderValue("Bearer " \o Trim(au_env.v))

\* C21: with a token configured, a request that is not OPTIONS and carries
\* neither valid credential is answered 401 and no handler runs for it; one
\* that carries a valid credential is not answered 401 and the handler of its
\* route runs.
C21_TokenRequiredForEveryHandler ==
    (TokenConfigured /\ au_request.method # "OPTIONS") =>
        /\ ~CarriesCredential =>
              /\ au_call.handler = None
              /\ au_call.pc = "done" => au_call.status = 401
        /\ (CarriesCredential /\ au_call.pc = "done") =>
              /\ au_call.status # 401
              /\ au_call.handler = HandlerOf(au_request.path, au_request.method)

\* C21 witness: a request whose x-api-token is wrong and whose Authorization
\* is the bearer token has reached post_chat.
C21_Witness ==
    /\ TokenConfigured
    /\ au_call.pc = "done"
    /\ au_request.x_api_token = HeaderValue("wrong")
    /\ au_request.authorization = HeaderValue("Bearer s3cret")
    /\ au_call.handler = "post_chat"

\* ================================================================ POST /api/chat
\* One chat request through the layers in front of the handler and through
\* post_chat (api.rs): the DefaultBodyLimit layer bounds the body the Json
\* extractor buffers, then the handler asks the limiter, trims and measures
\* the content, looks for the LLM key, calls the LLM and stores the exchange.

\* const MAX_CHAT_INPUT_LEN
MAX_CHAT_INPUT_LEN == 65536

\* DefaultBodyLimit::max(16 * 1024), in bytes
BODY_LIMIT == 16 * 1024

\* The smallest JSON body that carries the content as ChatInput.content: the
\* framing of the one field around the text (the contents used here are ASCII
\* without characters JSON escapes, one byte each).
BodyLen(content) == Len("{\"content\":\"\"}") + Len(content)

\* The Json extractor buffering the body under the limit: Limited fails, and
\* the extractor rejects with 413, when the body has more bytes than the limit.
BodyTooLarge(content) == BodyLen(content) > BODY_LIMIT

\* The validation at the head of post_chat, after the limiter let the request
\* in: the status of the error it returns, 0 when it returns none.
ValidateContent(content) ==
    IF Trim(content) = "" THEN 400
    ELSE IF Len(Trim(content)) > MAX_CHAT_INPUT_LEN THEN 413
    ELSE 0

\* db.add_coach_brief(content, &response): the exchange joins the chat log.
AddCoachBrief(briefs, content, response) ==
    Append(briefs, [prompt |-> content, response |-> response])

Chars1024 ==
    Chars64 \o Chars64 \o Chars64 \o Chars64 \o Chars64 \o Chars64 \o Chars64 \o Chars64
    \o Chars64 \o Chars64 \o Chars64 \o Chars64 \o Chars64 \o Chars64 \o Chars64 \o Chars64
Chars16384 ==
    Chars1024 \o Chars1024 \o Chars1024 \o Chars1024 \o Chars1024 \o Chars1024
    \o Chars1024 \o Chars1024 \o Chars1024 \o Chars1024 \o Chars1024 \o Chars1024
    \o Chars1024 \o Chars1024 \o Chars1024 \o Chars1024
Chars65536 == Chars16384 \o Chars16384 \o Chars16384 \o Chars16384

\* The largest content whose body fits the body limit, and the next one.
ContentAtBodyLimit == SubSeq(Chars16384, 1, BODY_LIMIT - BodyLen(""))
ContentOverBodyLimit == ContentAtBodyLimit \o "x"

\* The contents a client posts.
ChatContents ==
    {"", "  ", " hi ", "how was my week?", ContentAtBodyLimit, ContentOverBodyLimit,
     " " \o ContentAtBodyLimit, Chars65536, Chars65536 \o "x", " " \o Chars65536 \o " "}

\* The chat limiter with no request in its window, and with the window full.
ChatLimiters ==
    {NewLimiter(CHAT_RATE_LIMIT_PER_MINUTE, CHAT_WINDOW),
     [NewLimiter(CHAT_RATE_LIMIT_PER_MINUTE, CHAT_WINDOW) EXCEPT
         !.hits = [i \in 1..CHAT_RATE_LIMIT_PER_MINUTE |-> 0]]}

\* The chat log before the request.
ChatLogs == {<<>>, <<[prompt |-> "hello", response |-> "Hi!"]>>}

PostChatInit ==
    /\ \E limiter \in ChatLimiters, key \in BOOLEAN, briefs \in ChatLogs :
          /\ po_request \in [content : ChatContents, log_at_arrival : {briefs}]
          /\ po_state = [chat_limiter |-> limiter, gemini_api_key |-> key,
                         coach_briefs |-> briefs, llm_calls |-> 0]
    /\ po_call = [pc |-> "extract", status |-> 0]

\* Json<ChatInput> as the handler's extractor: a body over the limit is
\* answered 413 and post_chat does not run.
JsonExtract ==
    /\ po_call.pc = "extract"
    /\ po_call' = IF BodyTooLarge(po_request.content)
                     THEN [pc |-> "done", status |-> 413]
                     ELSE [pc |-> "post_chat", status |-> 0]
    /\ UNCHANGED <<po_request, po_state>>
    /\ UNCHANGED exceptPostChat

\* post_chat up to the LLM call: the limiter (429), the content (400, 413),
\* GEMINI_API_KEY (503).
PostChat ==
    /\ po_call.pc = "post_chat"
    /\ LET a == Allow(po_state.chat_limiter, 0)
       IN  /\ po_state' = [po_state EXCEPT !.chat_limiter = a.limiter]
           /\ po_call' =
                IF ~a.allowed THEN [pc |-> "done", status |-> 429]
                ELSE IF ValidateContent(po_request.content) # 0
                   THEN [pc |-> "done", status |-> ValidateContent(po_request.content)]
                ELSE IF ~po_state.gemini_api_key THEN [pc |-> "done", status |-> 503]
                ELSE [pc |-> "llm", status |-> 0]
    /\ UNCHANGED po_request
    /\ UNCHANGED exceptPostChat

\* ai_client.chat_with_history answers: the exchange is stored (a store
\* failure is 500) and the answer is 200.
ChatAnswered ==
    /\ po_call.pc = "llm"
    /\ \E stored \in BOOLEAN :
          /\ po_state' = [po_state EXCEPT
                            !.llm_calls = @ + 1,
                            !.coach_briefs =
                               IF stored
                                  THEN AddCoachBrief(@, Trim(po_request.content), "Reply")
                                  ELSE @]
          /\ po_call' = [pc |-> "done", status |-> IF stored THEN 200 ELSE 500]
    /\ UNCHANGED po_request
    /\ UNCHANGED exceptPostChat

\* ai_client.chat_with_history fails: 502.
ChatFailed ==
    /\ po_call.pc = "llm"
    /\ po_state' = [po_state EXCEPT !.llm_calls = @ + 1]
    /\ po_call' = [pc |-> "done", status |-> 502]
    /\ UNCHANGED po_request
    /\ UNCHANGED exceptPostChat

NextPostChat == JsonExtract \/ PostChat \/ ChatAnswered \/ ChatFailed

InitPostChat == PostChatInit /\ CleanupIdle /\ PlanIdle /\ CacheIdle /\ LimiterIdle /\ ApiIdle /\ BotIdle /\ NotifierIdle /\ ChatIdle /\ IngestIdle /\ ProfilesIdle /\ FetchIdle /\ AuthIdle /\ ExtractIdle /\ BuildIdle /\ ResolveIdle /\ ProgressionIdle /\ StoreIdle /\ MorningIdle /\ ConversationIdle /\ CloudIdle
SpecPostChat == InitPostChat /\ [][NextPostChat]_vars


\* The request was answered by a rejection of its content.
ContentRejected == po_call.pc = "done" /\ po_call.status \in {400, 413}

\* C22: POST /api/chat answers 400 when the content is empty after trimming
\* and 413 when it is longer than 65 536 characters, and a content of up to
\* 65 536 characters is not rejected (65 537 is, 65 536 is not); a rejected
\* request has called the LLM no time and left the chat log as it was.
\* (A request the rate limiter turns away with 429 is left aside.)
C22_ChatContentLimits ==
    (po_call.pc = "done" /\ po_call.status # 429) =>
        /\ Trim(po_request.content) = "" => po_call.status = 400
        /\ Len(Trim(po_request.content)) > MAX_CHAT_INPUT_LEN => po_call.status = 413
        /\ (Trim(po_request.content) # ""
              /\ Len(Trim(po_request.content)) <= MAX_CHAT_INPUT_LEN) => ~ContentRejected
        /\ ContentRejected =>
              /\ po_state.llm_calls = 0
              /\ po_state.coach_briefs = po_request.log_at_arrival

\* ================================================================ extract_json_block
\* AiClient::extract_json_block (ai_client.rs): the JSON text of an LLM answer,
\* from its first fenced block or from the whole answer when that is JSON.
\* A TLA+ string cannot hold the backquote, so the model writes the backquote
\* as the apostrophe: a fence is three apostrophes.

Fence == "'''"

\* str::find: the 1-based place of the first occurrence of sub in s, 0 for None.
Find(s, sub) ==
    IF Contains(s, sub)
       THEN CHOOSE i \in 1..(Len(s) - Len(sub) + 1) :
               /\ SubSeq(s, i, i + Len(sub) - 1) = sub
               /\ \A k \in 1..(i - 1) : SubSeq(s, k, k + Len(sub) - 1) # sub
       ELSE 0

\* The first place from i on whose character stops the scan, Len(s) + 1 when none does.
FirstFrom(s, i, Stop(_)) ==
    CHOOSE j \in i..(Len(s) + 1) :
       /\ j = Len(s) + 1 \/ Stop(Ch(s, j))
       /\ \A k \in i..(j - 1) : ~Stop(Ch(s, k))

\* ---- serde_json::from_str::<Value>: does the text parse as one JSON value.
\* Every scanner takes the place of the first character of what it reads and
\* gives the place after it, 0 when the text is not JSON there.
JsonWs == {" ", "\n", "\t", "\r"}
SkipWs(s, i) == FirstFrom(s, i, LAMBDA c : c \notin JsonWs)

HexDigits == "0123456789abcdefABCDEF"

\* The number of backslashes in a row right before place k, not before place lo.
BackslashRun(s, lo, k) ==
    CHOOSE r \in 0..(k - lo) :
       /\ \A t \in (k - r)..(k - 1) : Ch(s, t) = "\\"
       /\ r = k - lo \/ Ch(s, k - r - 1) # "\\"

Escaped(s, lo, k) == BackslashRun(s, lo, k) % 2 = 1

\* The characters lo..hi of a string literal: no control character, and every
\* backslash starts an escape JSON knows.
StringBodyOk(s, lo, hi) ==
    \A k \in lo..hi :
       /\ Ch(s, k) \notin {"\n", "\t", "\r"}
       /\ (Ch(s, k) = "\\" /\ ~Escaped(s, lo, k)) =>
             /\ k + 1 <= hi
             /\ Ch(s, k + 1) \in {"\"", "\\", "/", "b", "f", "n", "r", "t", "u"}
             /\ Ch(s, k + 1) = "u" =>
                   /\ k + 5 <= hi
                   /\ \A h \in (k + 2)..(k + 5) : IndexIn(HexDigits, Ch(s, h)) # 0

\* A string literal whose opening quote is at i.
ScanString(s, i) ==
    IF \E j \in (i + 1)..Len(s) : Ch(s, j) = "\"" /\ ~Escaped(s, i + 1, j)
       THEN LET j == CHOOSE j \in (i + 1)..Len(s) :
                        /\ Ch(s, j) = "\"" /\ ~Escaped(s, i + 1, j)
                        /\ \A k \in (i + 1)..(j - 1) :
                              ~(Ch(s, k) = "\"" /\ ~Escaped(s, i + 1, k))
            IN  IF StringBodyOk(s, i + 1, j - 1) THEN j + 1 ELSE 0
       ELSE 0

\* The digits from i on: the place after them when there is at least one.
ScanDigits(s, i) ==
    IF i <= Len(s) /\ IsDigit(Ch(s, i))
       THEN FirstFrom(s, i, LAMBDA c : ~IsDigit(c))
       ELSE 0

\* The exponent of a number, when one starts at i.
ScanExponent(s, i) ==
    IF i <= Len(s) /\ Ch(s, i) \in {"e", "E"}
       THEN IF i + 1 <= Len(s) /\ Ch(s, i + 1) \in {"+", "-"}
               THEN ScanDigits(s, i + 2)
               ELSE ScanDigits(s, i + 1)
       ELSE i

\* The fraction of a number, when one starts at i, and the exponent after it.
ScanFraction(s, i) ==
    IF i <= Len(s) /\ Ch(s, i) = "."
       THEN IF ScanDigits(s, i + 1) = 0 THEN 0 ELSE ScanExponent(s, ScanDigits(s, i + 1))
       ELSE ScanExponent(s, i)

\* The digits of a number start at i: no leading zero before another digit.
ScanInteger(s, i) ==
    IF ScanDigits(s, i) = 0 THEN 0
    ELSE IF Ch(s, i) = "0" /\ ScanDigits(s, i) # i + 1 THEN 0
    ELSE ScanFraction(s, ScanDigits(s, i))

ScanNumber(s, i) == IF Ch(s, i) = "-" THEN ScanInteger(s, i + 1) ELSE ScanInteger(s, i)

ScanLiteral(s, i, lit) ==
    IF i + Len(lit) - 1 <= Len(s) /\ SubSeq(s, i, i + Len(lit) - 1) = lit
       THEN i + Len(lit)
       ELSE 0

RECURSIVE ParseValue(_, _)
RECURSIVE ParseElements(_, _)
RECURSIVE ParseMembers(_, _)

\* What follows an element that ended before place j (0: the element failed).
AfterElement(s, j) ==
    IF j = 0 \/ j > Len(s) THEN 0
    ELSE IF Ch(s, j) = "]" THEN j + 1
    ELSE IF Ch(s, j) = "," THEN ParseElements(s, SkipWs(s, j + 1))
    ELSE 0

\* The elements of an array from i on, up to its closing bracket.
ParseElements(s, i) ==
    LET e == ParseValue(s, i)
    IN  IF e = 0 THEN 0 ELSE AfterElement(s, SkipWs(s, e))

\* What follows a member whose value ended before place j.
AfterMember(s, j) ==
    IF j = 0 \/ j > Len(s) THEN 0
    ELSE IF Ch(s, j) = "}" THEN j + 1
    ELSE IF Ch(s, j) = "," THEN ParseMembers(s, SkipWs(s, j + 1))
    ELSE 0

\* The value of a member whose key ended before place c, where the colon is due.
MemberValue(s, c) ==
    IF c > Len(s) \/ Ch(s, c) # ":" THEN 0
    ELSE LET v == ParseValue(s, SkipWs(s, c + 1))
         IN  IF v = 0 THEN 0 ELSE AfterMember(s, SkipWs(s, v))

\* The members of an object from i on, up to its closing brace.
ParseMembers(s, i) ==
    IF i > Len(s) \/ Ch(s, i) # "\"" THEN 0
    ELSE LET k == ScanString(s, i)
         IN  IF k = 0 THEN 0 ELSE MemberValue(s, SkipWs(s, k))

ParseValue(s, i) ==
    IF i > Len(s) THEN 0
    ELSE IF Ch(s, i) = "\"" THEN ScanString(s, i)
    ELSE IF Ch(s, i) = "["
       THEN (IF SkipWs(s, i + 1) <= Len(s) /\ Ch(s, SkipWs(s, i + 1)) = "]"
                THEN SkipWs(s, i + 1) + 1
                ELSE ParseElements(s, SkipWs(s, i + 1)))
    ELSE IF Ch(s, i) = "{"
       THEN (IF SkipWs(s, i + 1) <= Len(s) /\ Ch(s, SkipWs(s, i + 1)) = "}"
                THEN SkipWs(s, i + 1) + 1
                ELSE ParseMembers(s, SkipWs(s, i + 1)))
    ELSE IF Ch(s, i) = "t" THEN ScanLiteral(s, i, "true")
    ELSE IF Ch(s, i) = "f" THEN ScanLiteral(s, i, "false")
    ELSE IF Ch(s, i) = "n" THEN ScanLiteral(s, i, "null")
    ELSE IF Ch(s, i) = "-" \/ IsDigit(Ch(s, i)) THEN ScanNumber(s, i)
    ELSE 0

\* serde_json::from_str::<Value>(text).is_ok(): one value, white space around it.
ParsesAsJson(text) ==
    LET e == ParseValue(text, SkipWs(text, 1))
    IN  e # 0 /\ SkipWs(text, e) = Len(text) + 1

\* A Result<String>.
OkString(v) == [ok |-> TRUE, v |-> v]
ErrString == [ok |-> FALSE, v |-> ""]

\* What is left of the markdown after the start marker found at start_idx.
AfterStart(markdown, start_idx) ==
    SubSeq(markdown, start_idx + Len(Fence \o "json"), Len(markdown))

\* AiClient::extract_json_block
extract_json_block(markdown) ==
    LET start_idx == Find(markdown, Fence \o "json")
        rest == AfterStart(markdown, start_idx)
    IN  IF start_idx # 0 /\ Find(rest, Fence) # 0
           THEN OkString(Trim(SubSeq(rest, 1, Find(rest, Fence) - 1)))
        ELSE IF ParsesAsJson(markdown) THEN OkString(Trim(markdown))
        ELSE ErrString

\* JSON texts as serde_json prints them, and texts that are not JSON.
JsonTexts ==
    {"{\"ok\":true}", "[{\"workoutName\":\"FJ-AI:Test\"}]", "[]", "null", "-12.5e3",
     "\"hi\"", "{\"a\":[1,2,{\"b\":null}]}", "{\"q\":\"say \\\"hi\\\"\"}",
     "{\"note\":\"use ''' here\"}", "[\"'''json 1 '''\"]", "\"'''json\""}
OtherTexts == {"not json", "", "{\"ok\":tru}", "[1,]", "{\"a\" 1}", "01", "{\"a\":\"b}"}

\* How an answer carries a text: raw, in a json fence, in a json fence with
\* prose around it, after a json fence that is never closed, in a fence
\* without the json tag, raw with white space around it.
Formats == {"raw", "fenced", "prose", "open", "untagged", "padded"}

fmt(text, format) ==
    CASE format = "raw" -> text
      [] format = "fenced" -> Fence \o "json\n" \o text \o "\n" \o Fence
      [] format = "prose" ->
            "Here is your plan:\n" \o Fence \o "json\n" \o text \o "\n" \o Fence \o "\nEnjoy!"
      [] format = "open" -> Fence \o "json\n" \o text
      [] format = "untagged" -> Fence \o "\n" \o text \o "\n" \o Fence
      [] format = "padded" -> " \n" \o text \o "\n "

ExtractInit ==
    /\ \E text \in JsonTexts \cup OtherTexts, format \in Formats :
          ej_input = [text |-> text, format |-> format, markdown |-> fmt(text, format)]
    /\ ej_call = [pc |-> "call", result |-> ErrString]

\* The call of extract_json_block on the answer.
ExtractJsonBlock ==
    /\ ej_call.pc = "call"
    /\ ej_call' = [pc |-> "done", result |-> extract_json_block(ej_input.markdown)]
    /\ UNCHANGED ej_input
    /\ UNCHANGED exceptExtract

NextExtract == ExtractJsonBlock

InitExtract == ExtractInit /\ CleanupIdle /\ PlanIdle /\ CacheIdle /\ LimiterIdle /\ ApiIdle /\ BotIdle /\ NotifierIdle /\ ChatIdle /\ IngestIdle /\ ProfilesIdle /\ FetchIdle /\ PostChatIdle /\ AuthIdle /\ BuildIdle /\ ResolveIdle /\ ProgressionIdle /\ StoreIdle /\ MorningIdle /\ ConversationIdle /\ CloudIdle
SpecExtract == InitExtract /\ [][NextExtract]_vars

\* The claim's reading of an answer: it has a fenced block when a json fence
\* is followed, after its tag, by a fence; the block is the text between the
\* first json fence and the next fence.
FenceStarts(markdown) ==
    {i \in 1..Len(markdown) :
        /\ i + Len(Fence) + 3 <= Len(markdown)
        /\ SubSeq(markdown, i, i + Len(Fence) + 3) = Fence \o "json"}
FenceEnds(markdown, from) ==
    {j \in from..Len(markdown) :
        /\ j + Len(Fence) - 1 <= Len(markdown)
        /\ SubSeq(markdown, j, j + Len(Fence) - 1) = Fence}
Least(S) == CHOOSE x \in S : \A y \in S : x <= y
HasFencedBlock(markdown) ==
    /\ FenceStarts(markdown) # {}
    /\ FenceEnds(markdown, Least(FenceStarts(markdown)) + Len(Fence) + 4) # {}
FencedBlock(markdown) ==
    SubSeq(markdown, Least(FenceStarts(markdown)) + Len(Fence) + 4,
           Least(FenceEnds(markdown, Least(FenceStarts(markdown)) + Len(Fence) + 4)) - 1)

\* C23: extract_json_block returns the trimmed text between the first json
\* fence and the next fence when the answer has a fenced block, the trimmed
\* answer when it has none and parses as JSON, and an error otherwise; so a
\* JSON text wrapped in a fence and the same JSON text passed raw both give
\* back that JSON text.
C23_ExtractJsonBlock ==
    ej_call.pc = "done" =>
        /\ HasFencedBlock(ej_input.markdown) =>
              ej_call.result = OkString(Trim(FencedBlock(ej_input.markdown)))
        /\ (~HasFencedBlock(ej_input.markdown) /\ ParsesAsJson(ej_input.markdown)) =>
              ej_call.result = OkString(Trim(ej_input.markdown))
        /\ (~HasFencedBlock(ej_input.markdown) /\ ~ParsesAsJson(ej_input.markdown)) =>
              ~ej_call.result.ok
        /\ (ej_input.text \in JsonTexts /\ ej_input.format \in {"raw", "fenced"}) =>
              ej_call.result = OkString(ej_input.text)

\* ================================================================ build_workout_payload
\* WorkoutBuilder::build_workout_payload (workout_builder.rs) on one PlanSpec,
\* in strict mode (robust = false) and in robust mode (robust = true).

MaxBuildSteps == 2

\* A plan step with the fields f.
PlanStep(f) == JObj(f)

\* Plan steps as the LLM writes them: each phase, reps as a number, as AMRAP,
\* as a text that is or is not a number, as null; durations and rests as
\* numbers, texts with and without a unit, and LAP.
BuildSteps ==
    { PlanStep(("phase" :> JStr("warmup")) @@ ("exercise" :> JStr("ROW"))
               @@ ("duration" :> JStr("5min"))),
      PlanStep(("phase" :> JStr("interval")) @@ ("exercise" :> JStr("BENCH_PRESS"))
               @@ ("weight" :> JFloat(825)) @@ ("reps" :> JInt(5)) @@ ("rest" :> JInt(120))),
      PlanStep(("phase" :> JStr("cooldown")) @@ ("exercise" :> JStr("YOGA"))
               @@ ("duration" :> JStr("10min")) @@ ("rest" :> JInt(90))),
      PlanStep(("exercise" :> JStr("Goblet squat")) @@ ("reps" :> JStr("AMRAP"))
               @@ ("rest" :> JStr("LAP"))),
      PlanStep(("phase" :> JStr("Interval")) @@ ("exercise" :> JStr("ROW"))
               @@ ("reps" :> JStr("amrap")) @@ ("rest" :> JInt(90))),
      PlanStep(("phase" :> JStr("interval")) @@ ("exercise" :> JStr("BENCH_PRESS"))
               @@ ("duration" :> JStr("5min")) @@ ("note" :> JStr("slow"))),
      PlanStep(("phase" :> JStr("interval")) @@ ("exercise" :> JStr("ROW"))),
      PlanStep(("phase" :> JStr("interval")) @@ ("exercise" :> JStr("ROW"))
               @@ ("reps" :> JInt(8)) @@ ("duration" :> JStr("30s"))
               @@ ("rest" :> JStr("2 min"))),
      PlanStep(("phase" :> JStr("warmup")) @@ ("exercise" :> JStr("ROW"))
               @@ ("reps" :> JInt(10)) @@ ("rest" :> JInt(90))),
      PlanStep(("phase" :> JStr("interval")) @@ ("reps" :> JStr("10"))
               @@ ("weight" :> JStr("82.5kg")) @@ ("rest" :> JStr("60s"))),
      PlanStep(("phase" :> JStr("interval")) @@ ("exercise" :> JStr("ROW"))
               @@ ("reps" :> JStr("8-10")) @@ ("duration" :> JStr("45"))),
      PlanStep(("phase" :> JStr("interval")) @@ ("exercise" :> JStr("YOGA"))
               @@ ("time" :> JStr("30s")) @@ ("rest" :> JNull)),
      PlanStep(("phase" :> JStr("stretching")) @@ ("exercise" :> JStr("YOGA"))
               @@ ("duration" :> JInt(300))),
      PlanStep(("phase" :> JStr("interval")) @@ ("exercise" :> JStr("ROW"))
               @@ ("reps" :> JNull) @@ ("duration" :> JStr("5min")) @@ ("rest" :> JInt(0))),
      PlanStep(("phase" :> JStr("main")) @@ ("exercise" :> JStr("Goblet squat"))
               @@ ("duration" :> JStr("LAP")) @@ ("weight" :> JInt(80))),
      PlanStep(("phase" :> JStr("interval")) @@ ("exercise" :> JStr("BENCH_PRESS"))
               @@ ("reps" :> JInt(12)) @@ ("rest" :> JStr("LAP"))
               @@ ("note" :> JStr("tempo"))) }

\* The sequences of at most n plan steps.
RECURSIVE StepLists(_)
StepLists(n) ==
    IF n = 0 THEN {<<>>}
    ELSE StepLists(n - 1)
         \cup {Append(steps, step) : steps \in StepLists(n - 1), step \in BuildSteps}

\* The PlanSpecs handed to the builder, and one without steps.
BuildPlans ==
    {JObj(("workoutName" :> JStr("FJ-AI:Push")) @@ ("steps" :> JArr(steps))) :
        steps \in StepLists(MaxBuildSteps)}
    \cup {JObj("workoutName" :> JStr("FJ-AI:Empty"))}

BuildInit ==
    /\ bw_data \in BuildPlans
    /\ bw_payload = [strict |-> JNull, robust |-> JNull]

\* build_workout_payload(data, false)
BuildStrict ==
    /\ bw_payload.strict = JNull
    /\ bw_payload' = [bw_payload EXCEPT
                         !.strict = BuildWorkoutPayload(exercise_db, bw_data, FALSE)]
    /\ UNCHANGED bw_data
    /\ UNCHANGED exceptBuild

\* build_workout_payload(data, true)
BuildRobust ==
    /\ bw_payload.robust = JNull
    /\ bw_payload' = [bw_payload EXCEPT
                         !.robust = BuildWorkoutPayload(exercise_db, bw_data, TRUE)]
    /\ UNCHANGED bw_data
    /\ UNCHANGED exceptBuild

NextBuild == BuildStrict \/ BuildRobust

InitBuild == BuildInit /\ CleanupIdle /\ PlanIdle /\ CacheIdle /\ LimiterIdle /\ ApiIdle /\ BotIdle /\ NotifierIdle /\ ChatIdle /\ IngestIdle /\ ProfilesIdle /\ FetchIdle /\ PostChatIdle /\ ExtractIdle /\ AuthIdle /\ ResolveIdle /\ ProgressionIdle /\ StoreIdle /\ MorningIdle /\ ConversationIdle /\ CloudIdle
SpecBuild == InitBuild /\ [][NextBuild]_vars

\* ---- what the claims about the payloads speak of
BuiltPayloads == {p \in {bw_payload.strict, bw_payload.robust} : p # JNull}
BothBuilt == bw_payload.strict # JNull /\ bw_payload.robust # JNull

\* The steps of the PlanSpec.
SourceSteps == IF Get(bw_data, "steps").t = "arr" THEN Get(bw_data, "steps").v ELSE <<>>

IsRestDto(dto) == dto.v["stepType"].v["stepTypeKey"] = JStr("rest")
IsIntervalDto(dto) == dto.v["stepType"].v["stepTypeKey"] = JStr("interval")

\* The exercise steps among the first i emitted steps: the i-th emitted step,
\* when it is an exercise step, was built from the source step of that number.
SourceIndex(dtos, i) == Cardinality({q \in 1..i : ~IsRestDto(dtos[q])})

\* The end condition an emitted step carries: <<key, value>>.
EndOf(dto) == <<dto.v["endCondition"].v["conditionTypeKey"], dto.v["endConditionValue"]>>

\* The fields in whose presence or text the two modes may differ.
ModeFields == {"category", "exerciseName", "weightValue", "weightUnit", "description"}

\* C24: strict and robust payloads of one PlanSpec have the same number of
\* steps with the same step types, end conditions and stepOrder values in the
\* same order, and differ only in field presence: the strict exercise step
\* carries category and exerciseName (and weightValue when a weight parsed),
\* the robust one carries them as null or not at all and names the exercise
\* in its description.
C24_StrictAndRobustSameSteps ==
    BothBuilt =>
        LET s == WorkoutSteps(bw_payload.strict)
            r == WorkoutSteps(bw_payload.robust)
        IN  /\ Len(s) = Len(r)
            /\ \A key \in DOMAIN bw_payload.strict.v \cup DOMAIN bw_payload.robust.v :
                  key # "workoutSegments" => Get(bw_payload.strict, key) = Get(bw_payload.robust, key)
            /\ \A i \in 1..Len(s) :
                  /\ {"stepOrder", "stepType", "endCondition", "endConditionValue"}
                        \subseteq DOMAIN s[i].v
                  /\ \A key \in (DOMAIN s[i].v \cup DOMAIN r[i].v) \ ModeFields :
                        Get(s[i], key) = Get(r[i], key)
                  /\ ~IsRestDto(s[i]) =>
                        /\ Get(s[i], "category").t = "str"
                        /\ Get(s[i], "exerciseName").t = "str"
                        /\ Get(r[i], "category") \in {JNull, JAbsent}
                        /\ Get(r[i], "exerciseName") \in {JNull, JAbsent}
                        /\ Get(r[i], "weightValue") = JAbsent
                        /\ Get(r[i], "description").t = "str"
                        /\ Contains(Get(r[i], "description").v,
                                    RawName(SourceSteps[SourceIndex(s, i)]))
                        /\ IsSome(Get(s[i], "weightValue"))
                              <=> WeightVal(SourceSteps[SourceIndex(s, i)]).some

\* C24, witness: both payloads are built, a REST step is among their steps and
\* a strict step carries a weightValue.
C24_Witness ==
    /\ BothBuilt
    /\ \E i \in 1..Len(WorkoutSteps(bw_payload.strict)) :
          IsRestDto(WorkoutSteps(bw_payload.strict)[i])
    /\ \E i \in 1..Len(WorkoutSteps(bw_payload.strict)) :
          IsSome(Get(WorkoutSteps(bw_payload.strict)[i], "weightValue"))

\* C25: in every built payload the emitted steps, exercise steps and REST
\* steps together, carry stepOrder 1, 2, ..., n in the order of emission.
C25_StepOrderCountsEveryStep ==
    \A payload \in BuiltPayloads :
       \A i \in 1..Len(WorkoutSteps(payload)) :
          Get(WorkoutSteps(payload)[i], "stepOrder") = JInt(i)

\* C25, witness: a built payload with a REST step in second place and an
\* exercise step after it.
C25_Witness ==
    \E payload \in BuiltPayloads :
       /\ Len(WorkoutSteps(payload)) >= 3
       /\ IsRestDto(WorkoutSteps(payload)[2])
       /\ ~IsRestDto(WorkoutSteps(payload)[3])

\* C26: a REST step with a time end condition is emitted directly after a
\* step iff that step is an interval step whose rest parses as seconds (rest
\* 90: one REST step with value 90; rest "LAP" or no rest: none); no REST
\* step follows a warmup or cooldown step, and every source step gives one
\* exercise step.
C26_RestStepAfterIntervalWithRest ==
    \A payload \in BuiltPayloads :
       LET dtos == WorkoutSteps(payload)
           rest(i) == Get(SourceSteps[SourceIndex(dtos, i)], "rest")
           restFollows(i) == i < Len(dtos) /\ IsRestDto(dtos[i + 1])
       IN  /\ Cardinality({i \in 1..Len(dtos) : ~IsRestDto(dtos[i])}) = Len(SourceSteps)
           /\ \A i \in 1..Len(dtos) :
                 IF IsRestDto(dtos[i])
                    THEN /\ i > 1 /\ ~IsRestDto(dtos[i - 1])
                         /\ EndOf(dtos[i])[1] = JStr("time")
                    ELSE /\ restFollows(i) <=>
                               (IsIntervalDto(dtos[i]) /\ ParseDuration(rest(i)).some)
                         /\ restFollows(i) =>
                               EndOf(dtos[i + 1]) = <<JStr("time"), JInt(ParseDuration(rest(i)).v)>>
                         /\ (IsIntervalDto(dtos[i]) /\ rest(i) = JInt(90)) =>
                               /\ restFollows(i)
                               /\ EndOf(dtos[i + 1]) = <<JStr("time"), JInt(90)>>
                         /\ rest(i) \in {JStr("LAP"), JAbsent} => ~restFollows(i)
                         /\ ~IsIntervalDto(dtos[i]) => ~restFollows(i)

\* C26, witness: a built payload where a REST step of 90 seconds follows an
\* interval step, and a warmup or cooldown step whose source has a rest of 90
\* is followed by none.
C26_Witness ==
    \E payload \in BuiltPayloads :
       LET dtos == WorkoutSteps(payload)
       IN  /\ \E i \in 1..(Len(dtos) - 1) :
                 /\ IsIntervalDto(dtos[i])
                 /\ IsRestDto(dtos[i + 1])
                 /\ EndOf(dtos[i + 1]) = <<JStr("time"), JInt(90)>>
           /\ \E i \in 1..Len(dtos) :
                 /\ ~IsRestDto(dtos[i]) /\ ~IsIntervalDto(dtos[i])
                 /\ Get(SourceSteps[SourceIndex(dtos, i)], "rest") = JInt(90)
                 /\ ~(i < Len(dtos) /\ IsRestDto(dtos[i + 1]))

MaxResolveCalls == 2

\* The data rows of the CSV file of these builders.
VocabularyRows ==
    << <<"Curl", "CURL", "CURL">>,
       <<"Core", "CORE", "CORE">>,
       <<"Pullup", "PULL_UP", "PULLUP">>,
       <<"Plank", "PLANK", "PLANK">> >>

\* The vocabulary in the order load_exercise_db inserts its keys.
LoadedVocabulary == LoadExerciseDb(<<>>, VocabularyRows)

\* The orders in which a HashMap with these entries can iterate.
IterationOrders ==
    {order \in [1..Len(LoadedVocabulary) -> {LoadedVocabulary[i] : i \in 1..Len(LoadedVocabulary)}] :
        \A i, j \in 1..Len(LoadedVocabulary) : order[i] = order[j] => i = j}

\* The names asked for: overrides, exact and normalized matches, a name with
\* an underscore, and misspellings at distance 1 (of two keys alike), 3 and 4.
ResolveNames ==
    {"cure", " Curl ", "pull-up", "pul up", "bench_press", "face_pul", "Deadlift",
     "curling", "curlings", "kettlebell"}

ResolveInit ==
    /\ rv_db \in IterationOrders
    /\ rv_call \in [name : ResolveNames, results : {<<>>}]

\* WorkoutBuilder::new(): another builder over the same file.
NewBuilder ==
    /\ rv_db' \in IterationOrders
    /\ rv_db' # rv_db
    /\ UNCHANGED rv_call
    /\ UNCHANGED exceptResolve

\* self.resolve_exercise(name) on the builder in use.
ResolveCall ==
    /\ Len(rv_call.results) < MaxResolveCalls
    /\ rv_call' = [rv_call EXCEPT
                      !.results = Append(@, ResolveCleaned(rv_db, ToUpper(Trim(rv_call.name))))]
    /\ UNCHANGED rv_db
    /\ UNCHANGED exceptResolve

NextResolve == NewBuilder \/ ResolveCall

InitResolve == ResolveInit /\ CleanupIdle /\ PlanIdle /\ CacheIdle /\ LimiterIdle /\ ApiIdle /\ BotIdle /\ NotifierIdle /\ ChatIdle /\ IngestIdle /\ ProfilesIdle /\ FetchIdle /\ PostChatIdle /\ ExtractIdle /\ BuildIdle /\ AuthIdle /\ ProgressionIdle /\ StoreIdle /\ MorningIdle /\ ConversationIdle /\ CloudIdle
SpecResolve == InitResolve /\ [][NextResolve]_vars

\* ---- what the claims about the resolver speak of
CleanName == ToUpper(Trim(rv_call.name))

\* The name reaches the fuzzy fallback: no override, no exact or normalized
\* vocabulary match, no underscore.
ReachesFuzzy ==
    /\ CleanName \notin DOMAIN MANUAL_OVERRIDES
    /\ DbGet(LoadedVocabulary, CleanName) = None
    /\ DbGet(LoadedVocabulary, NormInput(CleanName)) = None
    /\ ~Contains(CleanName, "_")

VocabularyKeys == {LoadedVocabulary[i].key : i \in 1..Len(LoadedVocabulary)}
MinDistance ==
    CHOOSE d \in {Levenshtein(CleanName, key) : key \in VocabularyKeys} :
       \A key \in VocabularyKeys : d <= Levenshtein(CleanName, key)

\* The first-loaded key among those at the minimal distance.
FirstLoadedNearest ==
    LoadedVocabulary[CHOOSE i \in 1..Len(LoadedVocabulary) :
                        /\ Levenshtein(CleanName, LoadedVocabulary[i].key) = MinDistance
                        /\ \A j \in 1..(i - 1) :
                              Levenshtein(CleanName, LoadedVocabulary[j].key) # MinDistance]

\* C28: resolve_exercise is deterministic: over one loaded vocabulary any
\* two calls with the same name return the same (category, name), and among
\* several keys at the same minimal distance the first-loaded one is chosen.
C28_ResolveDeterministicFirstLoaded ==
    /\ \A i, j \in 1..Len(rv_call.results) : rv_call.results[i] = rv_call.results[j]
    /\ (ReachesFuzzy /\ MinDistance <= 3) =>
          \A i \in 1..Len(rv_call.results) : rv_call.results[i] = FirstLoadedNearest.val

\* C29: a name that reaches the fuzzy fallback resolves to the entry of a
\* vocabulary key at minimal Levenshtein distance when that distance is at
\* most 3, and to (None, None) when every key is at distance 4 or more.
C29_FuzzyAcceptsThreeRejectsFour ==
    ReachesFuzzy =>
       \A i \in 1..Len(rv_call.results) :
          IF MinDistance <= 3
             THEN \E key \in VocabularyKeys :
                     /\ Levenshtein(CleanName, key) = MinDistance
                     /\ rv_call.results[i] = DbGet(LoadedVocabulary, key)
             ELSE rv_call.results[i] = <<None, None>>

\* C29, witness: a name at distance 3 from its nearest key was resolved to an
\* entry, or a name at distance 4 was not found.
C29_Witness ==
    /\ ReachesFuzzy
    /\ rv_call.results # <<>>
    /\ \/ MinDistance = 3 /\ rv_call.results[1] = <<"CURL", "CURL">>
       \/ MinDistance = 4 /\ rv_call.results[1] = <<None, None>>

\* ================================================================ progression history
\* Database::get_progression_history_raw (db.rs): per exercise the best set
\* and the series of each date's best set, over the rows of exercise_history.

MaxHistoryRows == 3

\* The characters of names and dates in the order of their codes, and the
\* order SQLite (BINARY collation) and BTreeMap<String, _> put on texts.
CodeOrder == " -0123456789:ABCDEFGHIJKLMNOPQRSTUVWXYZ_"
StrLess(a, b) ==
    \E i \in 1..(Len(b)) :
       /\ i <= Len(a) + 1
       /\ SubSeq(a, 1, i - 1) = SubSeq(b, 1, i - 1)
       /\ i = Len(a) + 1 \/ IndexIn(CodeOrder, Ch(a, i)) < IndexIn(CodeOrder, Ch(b, i))

\* Weights are kilograms with thousandths: v is above w.
WeightAbove(v, w) == v.kg > w.kg \/ (v.kg = w.kg /\ v.thousandths > w.thousandths)

\* The members of a finite set in the ascending order Less puts on them.
Ascending(S, Less(_, _)) ==
    [i \in 1..Cardinality(S) |->
        CHOOSE x \in S : Cardinality({y \in S : Less(y, x)}) = i - 1]

\* ORDER BY weight DESC, reps DESC, set_index DESC: r comes before o.
RanksBefore(r, o) ==
    \/ WeightAbove(r.weight, o.weight)
    \/ r.weight = o.weight /\ r.reps > o.reps
    \/ r.weight = o.weight /\ r.reps = o.reps /\ r.set_index > o.set_index

\* The inner SELECT with WHERE row_rank = 1: of every (exercise_name, date)
\* the row that ranks first.
RankOne(table) ==
    {r \in table :
        \A o \in table :
           (o.exercise_name = r.exercise_name /\ o.date = r.date /\ o # r) => RanksBefore(r, o)}

\* ORDER BY exercise_name ASC, date ASC, and the fold into history_map: the
\* (weight, reps, date) items of one exercise in ascending date.
TrendOf(table, name) ==
    LET rows == {r \in RankOne(table) : r.exercise_name = name}
        byDate == Ascending(rows, LAMBDA x, y : StrLess(x.date, y.date))
    IN  [i \in 1..Cardinality(rows) |->
            [weight |-> byDate[i].weight, reps |-> byDate[i].reps, date |-> byDate[i].date]]

RECURSIVE BestOf(_, _, _)
\* The loop over one exercise's history: max_weight, best_reps, best_date.
BestOf(history, i, best) ==
    IF i > Len(history) THEN best
    ELSE IF \/ WeightAbove(history[i].weight, best.weight)
            \/ history[i].weight = best.weight /\ history[i].reps > best.reps
       THEN BestOf(history, i + 1, history[i])
       ELSE BestOf(history, i + 1, best)

\* Database::get_progression_history_raw: the entries in ascending name.
GetProgressionHistoryRaw(table) ==
    LET names == {r.exercise_name : r \in table}
        byName == Ascending(names, StrLess)
        start == [weight |-> GramsToKg(0), reps |-> 0, date |-> ""]
    IN  [n \in 1..Cardinality(names) |->
            LET best == BestOf(TrendOf(table, byName[n]), 1, start)
            IN  [name |-> byName[n], max_weight |-> best.weight, best_reps |-> best.reps,
                 best_date |-> best.date, history |-> TrendOf(table, byName[n])]]

\* The strength activities whose sets are stored, id and start_time, and the
\* places (activity, set_index) a row can take; rows get their ids in the
\* order of these places.
HistoryActivities ==
    {[id |-> 1, start_time |-> "2026-03-01 10:00:00"],
     [id |-> 2, start_time |-> "2026-03-04 18:30:00"]}
HistoryPlaces == HistoryActivities \X (0..1)
HistorySets == [exercise_name : {"BENCH_PRESS", "SQUAT"}, grams : {0, 80000}, reps : {5, 8}]

HistoryRow(place, set) ==
    [id |-> 2 * place[1].id + place[2] - 1, activity_id |-> place[1].id,
     date |-> place[1].start_time, exercise_name |-> set.exercise_name,
     weight |-> GramsToKg(set.grams), reps |-> set.reps, set_index |-> place[2]]

\* The contents of exercise_history: at most MaxHistoryRows rows, one per place.
HistoryTables ==
    UNION {{{HistoryRow(place, sets[place]) : place \in places} : sets \in [places -> HistorySets]} :
              places \in {P \in SUBSET HistoryPlaces : Cardinality(P) <= MaxHistoryRows}}

ProgressionInit ==
    /\ pg_table \in HistoryTables
    /\ pg_result = [asked |-> FALSE, entries |-> <<>>]

\* db.get_progression_history_raw()
QueryProgression ==
    /\ ~pg_result.asked
    /\ pg_result' = [asked |-> TRUE, entries |-> GetProgressionHistoryRaw(pg_table)]
    /\ UNCHANGED pg_table
    /\ UNCHANGED exceptProgression

NextProgression == QueryProgression

InitProgression == ProgressionInit /\ CleanupIdle /\ PlanIdle /\ CacheIdle /\ LimiterIdle /\ ApiIdle /\ BotIdle /\ NotifierIdle /\ ChatIdle /\ IngestIdle /\ ProfilesIdle /\ FetchIdle /\ PostChatIdle /\ ExtractIdle /\ BuildIdle /\ ResolveIdle /\ AuthIdle /\ StoreIdle /\ MorningIdle /\ ConversationIdle /\ CloudIdle
SpecProgression == InitProgression /\ [][NextProgression]_vars

\* ---- what the claim about the progression speaks of
\* The rows of an exercise, and o is not above r in weight, then reps, then date.
RowsOf(name) == {r \in pg_table : r.exercise_name = name}
NotBelow(r, o) ==
    \/ WeightAbove(r.weight, o.weight)
    \/ r.weight = o.weight /\ r.reps > o.reps
    \/ r.weight = o.weight /\ r.reps = o.reps /\ ~StrLess(r.date, o.date)

\* C30: for every exercise in exercise_history the query reports one entry;
\* its best is the row that is maximal by weight, then reps, then date (of
\* equal weight and reps the latest date), and its trend series holds one
\* item per date of that exercise, that date's best set by weight, then
\* reps, then set_index, in ascending date.
C30_ProgressionBestAndTrend ==
    pg_result.asked =>
       /\ {pg_result.entries[n].name : n \in 1..Len(pg_result.entries)}
             = {r.exercise_name : r \in pg_table}
       /\ \A n, m \in 1..Len(pg_result.entries) :
             pg_result.entries[n].name = pg_result.entries[m].name => n = m
       /\ \A n \in 1..Len(pg_result.entries) :
             LET e == pg_result.entries[n]
                 h == e.history
             IN  /\ \E r \in RowsOf(e.name) :
                       /\ \A o \in RowsOf(e.name) : NotBelow(r, o)
                       /\ <<e.max_weight, e.best_reps, e.best_date>> = <<r.weight, r.reps, r.date>>
                 /\ {h[i].date : i \in 1..Len(h)} = {r.date : r \in RowsOf(e.name)}
                 /\ \A i \in 1..(Len(h) - 1) : StrLess(h[i].date, h[i + 1].date)
                 /\ \A i \in 1..Len(h) :
                       \E r \in RowsOf(e.name) :
                          /\ r.date = h[i].date
                          /\ <<r.weight, r.reps>> = <<h[i].weight, h[i].reps>>
                          /\ \A o \in RowsOf(e.name) :
                                (o.date = r.date /\ o # r) => RanksBefore(r, o)

\* ================================================================ local-store mutex

\* The pipeline runs of one daemon, and the activities of a snapshot.
MaxPipelineRuns == 2
MaxStoreActivities == 1

StoreTasks == {"pipeline", "bot", "api"}

\* profile.auto_analyze_sports of the active profile.
auto_analyze_sports == {"running"}

\* The activities a snapshot may hold: recent (start_time of today or
\* yesterday) or older, of a sport that is auto-analyzed or not.
StoreActivities ==
    { [id |-> 1, recent |-> TRUE, type |-> "running"],
      [id |-> 2, recent |-> TRUE, type |-> "yoga"],
      [id |-> 3, recent |-> FALSE, type |-> "running"] }

\* Database::is_activity_analyzed: the presence of the id in activity_analyses.
IsActivityAnalyzed(analyses, id) == id \in analyses

\* C35, mutant of SaveActivityAnalysis: the row is not kept.
SaveActivityAnalysis_Lost(analyses, id) == analyses

\* Database::save_activity_analysis: the row of the id (activity_id is the key).
SaveActivityAnalysis(analyses, id) == analyses \cup {id}

\* The conditions of the auto-analyze loop on one activity (main.rs:370-381).
NeedsAnalysis(act, analyses) ==
    /\ act.recent
    /\ act.type \in auto_analyze_sports
    /\ ~IsActivityAnalyzed(analyses, act.id)

\* `database.lock().await` at a site, and the critical section it leads to.
HeldOf ==
    [ lock_gc26 |-> "held_gc26", lock_gc294 |-> "held_gc294",
      lock_m277 |-> "held_m277", lock_m288 |-> "held_m288",
      lock_m363 |-> "held_m363", lock_m448 |-> "held_m448",
      lock_m452 |-> "held_m452", lock_m461 |-> "held_m461",
      lock_m607 |-> "held_m607",
      lock_b259 |-> "held_b259", lock_b273 |-> "held_b273",
      lock_b278 |-> "held_b278", lock_b288 |-> "held_b288",
      lock_a529 |-> "held_a529", lock_a548 |-> "held_a548" ]

\* Where a task goes on when its fetch_data call has returned.
AfterFetchData(t) ==
    IF t = "bot" THEN "lock_b259"
    ELSE IF mx_acts = <<>> THEN "lock_m288" ELSE "lock_m277"

\* Database::get_ai_chat_history: the rows in ascending id (the log stays far
\* below MAX_CHAT_HISTORY rows here).
GetAiChatHistory(chat) == chat

\* The process runs as the daemon with the bot (main.rs:211-230: the pipeline
\* every 24 hours, the bot spawned beside it) or as the API server
\* (main.rs:201-208: the handlers, of which trigger_generate runs the
\* pipeline once and post_chat is another).
StoreInit ==
    /\ \E n \in 0..MaxStoreActivities : mx_acts \in [1..n -> StoreActivities]
    /\ mx_lock = [owner |-> "none", queue |-> <<>>]
    /\ \E mode \in {"daemon", "api"} :
          mx_task = [t \in StoreTasks |->
                       [pc |-> IF t = "pipeline" THEN "lock_gc26"
                               ELSE IF t = "bot" /\ mode = "daemon" THEN "lock_gc26"
                               ELSE IF t = "api" /\ mode = "api" THEN "lock_a529"
                               ELSE "idle",
                        waiting |-> FALSE,
                        i |-> 1,
                        runs |-> IF t = "pipeline" THEN 1 ELSE 0,
                        loop |-> t = "pipeline" /\ mode = "daemon"]]
    /\ mx_store = [chat |-> <<>>, analyses |-> {}]
    /\ mx_out = [history |-> NoHistory, analysed |-> <<>>]

\* C40, mutant of Released: the guard is kept.
Released_Kept(t) == mx_lock

\* The guard of the mutex is dropped.
Released(t) == [mx_lock EXCEPT !.owner = "none"]

\* tokio::sync::Mutex::lock: the task joins the queue of waiters.
LockRequest(t) ==
    /\ mx_task[t].pc \in DOMAIN HeldOf
    /\ ~mx_task[t].waiting
    /\ mx_lock' = [mx_lock EXCEPT !.queue = Append(@, t)]
    /\ mx_task' = [mx_task EXCEPT ![t].waiting = TRUE]
    /\ UNCHANGED <<mx_acts, mx_store, mx_out>>
    /\ UNCHANGED exceptStore

\* The mutex is free and the task is the first waiter: lock().await returns
\* the guard (the tokio Mutex hands the lock out in FIFO order).
LockGrant(t) ==
    /\ mx_task[t].waiting
    /\ mx_lock.owner = "none"
    /\ mx_lock.queue # <<>>
    /\ Head(mx_lock.queue) = t
    /\ mx_lock' = [owner |-> t, queue |-> Tail(mx_lock.queue)]
    /\ mx_task' = [mx_task EXCEPT ![t].waiting = FALSE, ![t].pc = HeldOf[mx_task[t].pc]]
    /\ UNCHANGED <<mx_acts, mx_store, mx_out>>
    /\ UNCHANGED exceptStore

\* ---- fetch_data (garmin_client.rs:22-298), called by the pipeline and the bot

\* get_garmin_cache under the lock; a fresh row is returned, else the fetch.
HeldGetGarminCache(t) ==
    /\ mx_task[t].pc = "held_gc26"
    /\ mx_lock' = Released(t)
    /\ \E fresh \in BOOLEAN :
          mx_task' = [mx_task EXCEPT ![t].pc = IF fresh THEN AfterFetchData(t)
                                               ELSE "net_fetch",
                                     ![t].i = 1]
    /\ UNCHANGED <<mx_acts, mx_store, mx_out>>
    /\ UNCHANGED exceptStore

\* The cloud requests of fetch_data.
FetchDataNetwork(t) ==
    /\ mx_task[t].pc = "net_fetch"
    /\ mx_task' = [mx_task EXCEPT ![t].pc = "lock_gc294"]
    /\ UNCHANGED <<mx_acts, mx_lock, mx_store, mx_out>>
    /\ UNCHANGED exceptStore

\* set_garmin_cache under the lock, then Ok(response).
HeldSetGarminCache(t) ==
    /\ mx_task[t].pc = "held_gc294"
    /\ mx_lock' = Released(t)
    /\ mx_task' = [mx_task EXCEPT ![t].pc = AfterFetchData(t), ![t].i = 1]
    /\ UNCHANGED <<mx_acts, mx_store, mx_out>>
    /\ UNCHANGED exceptStore

\* ---- run_coach_pipeline (main.rs:238-623)

\* insert_activity of one activity of the loop (main.rs:276-284).
HeldInsertActivity ==
    /\ mx_task["pipeline"].pc = "held_m277"
    /\ mx_lock' = Released("pipeline")
    /\ mx_task' = [mx_task EXCEPT
                     !["pipeline"].i = @ + 1,
                     !["pipeline"].pc = IF mx_task["pipeline"].i + 1 > Len(mx_acts)
                                           THEN "lock_m288" ELSE "lock_m277"]
    /\ UNCHANGED <<mx_acts, mx_store, mx_out>>
    /\ UNCHANGED exceptStore

\* get_progression_history (main.rs:287-291); then the auto-analyze block.
HeldGetProgressionHistory ==
    /\ mx_task["pipeline"].pc = "held_m288"
    /\ mx_lock' = Released("pipeline")
    /\ mx_task' = [mx_task EXCEPT !["pipeline"].pc = "lock_m363", !["pipeline"].i = 1]
    /\ UNCHANGED <<mx_acts, mx_store, mx_out>>
    /\ UNCHANGED exceptStore

\* `let db = database.lock().await` (main.rs:363) is held by the whole loop
\* `for act in &detailed_activities`: one turn up to the LLM request, or the
\* end of the block, where the guard is dropped.
AutoAnalyzeTurn ==
    /\ mx_task["pipeline"].pc = "held_m363"
    /\ IF mx_task["pipeline"].i > Len(mx_acts)
          THEN /\ mx_lock' = Released("pipeline")
               /\ mx_task' = [mx_task EXCEPT !["pipeline"].pc = "net_cleanup"]
          ELSE /\ mx_lock' = mx_lock
               /\ mx_task' = [mx_task EXCEPT
                     !["pipeline"] =
                        IF NeedsAnalysis(mx_acts[mx_task["pipeline"].i], mx_store.analyses)
                           THEN [@ EXCEPT !.pc = "net_analysis"]
                           ELSE [@ EXCEPT !.i = @ + 1]]
    /\ UNCHANGED <<mx_acts, mx_store, mx_out>>
    /\ UNCHANGED exceptStore

\* ai_client.generate_workout(&prompt).await (main.rs:389): the analysis, or
\* the error that ends the turn.
AnalysisRequest ==
    /\ mx_task["pipeline"].pc = "net_analysis"
    /\ \E ok \in BOOLEAN :
          mx_task' = [mx_task EXCEPT
             !["pipeline"] = IF ok THEN [@ EXCEPT !.pc = "net_analysis_broadcast"]
                             ELSE [@ EXCEPT !.pc = "held_m363", !.i = @ + 1]]
    /\ UNCHANGED <<mx_acts, mx_lock, mx_store, mx_out>>
    /\ UNCHANGED exceptStore

\* broadcast_message(&msg).await (main.rs:397)
AnalysisBroadcast ==
    /\ mx_task["pipeline"].pc = "net_analysis_broadcast"
    /\ mx_out' = [mx_out EXCEPT
                    !.analysed = Append(@, mx_acts[mx_task["pipeline"].i].id)]
    /\ mx_task' = [mx_task EXCEPT !["pipeline"].pc = "save_analysis"]
    /\ UNCHANGED <<mx_acts, mx_lock, mx_store>>
    /\ UNCHANGED exceptStore

\* db.save_activity_analysis (main.rs:399-403), the end of the turn.
SaveAnalysis ==
    /\ mx_task["pipeline"].pc = "save_analysis"
    /\ mx_store' = [mx_store EXCEPT
                      !.analyses = SaveActivityAnalysis(@, mx_acts[mx_task["pipeline"].i].id)]
    /\ mx_task' = [mx_task EXCEPT !["pipeline"].pc = "held_m363", !["pipeline"].i = @ + 1]
    /\ UNCHANGED <<mx_acts, mx_lock, mx_out>>
    /\ UNCHANGED exceptStore

\* garmin_client.cleanup_ai_workouts().await (main.rs:443)
PipelineCleanup ==
    /\ mx_task["pipeline"].pc = "net_cleanup"
    /\ mx_task' = [mx_task EXCEPT !["pipeline"].pc = "lock_m448"]
    /\ UNCHANGED <<mx_acts, mx_lock, mx_store, mx_out>>
    /\ UNCHANGED exceptStore

\* database.lock().await.clear_ai_chat() (main.rs:448)
HeldClearAiChat ==
    /\ mx_task["pipeline"].pc = "held_m448"
    /\ mx_store' = [mx_store EXCEPT !.chat = <<>>]
    /\ mx_lock' = Released("pipeline")
    /\ mx_task' = [mx_task EXCEPT !["pipeline"].pc = "lock_m452"]
    /\ UNCHANGED <<mx_acts, mx_out>>
    /\ UNCHANGED exceptStore

\* database.lock().await.add_ai_chat_message("user", &brief) (main.rs:452)
HeldAddBrief ==
    /\ mx_task["pipeline"].pc = "held_m452"
    /\ mx_store' = [mx_store EXCEPT
                      !.chat = Append(@, [role |-> "user", content |-> "brief"])]
    /\ mx_lock' = Released("pipeline")
    /\ mx_task' = [mx_task EXCEPT !["pipeline"].pc = "net_generate"]
    /\ UNCHANGED <<mx_acts, mx_out>>
    /\ UNCHANGED exceptStore

\* ai_client.generate_workout(&brief).await (main.rs:456)
PipelineGenerate ==
    /\ mx_task["pipeline"].pc = "net_generate"
    /\ \E ok \in BOOLEAN :
          mx_task' = [mx_task EXCEPT !["pipeline"].pc = IF ok THEN "lock_m461" ELSE "ret"]
    /\ UNCHANGED <<mx_acts, mx_lock, mx_store, mx_out>>
    /\ UNCHANGED exceptStore

\* add_ai_chat_message("model", &markdown_response) (main.rs:459-463); the
\* run ends here when no JSON block can be read from the reply.
HeldAddPlanReply ==
    /\ mx_task["pipeline"].pc = "held_m461"
    /\ mx_store' = [mx_store EXCEPT
                      !.chat = Append(@, [role |-> "model", content |-> "plan"])]
    /\ mx_lock' = Released("pipeline")
    /\ \E extracted \in BOOLEAN :
          mx_task' = [mx_task EXCEPT
                        !["pipeline"].pc = IF extracted THEN "net_materialize" ELSE "ret"]
    /\ UNCHANGED <<mx_acts, mx_out>>
    /\ UNCHANGED exceptStore

\* The create and schedule POSTs and the summary broadcast (main.rs:496-605).
PipelineMaterialize ==
    /\ mx_task["pipeline"].pc = "net_materialize"
    /\ mx_task' = [mx_task EXCEPT !["pipeline"].pc = "lock_m607"]
    /\ UNCHANGED <<mx_acts, mx_lock, mx_store, mx_out>>
    /\ UNCHANGED exceptStore

\* database.lock().await.clear_garmin_cache() (main.rs:607)
HeldClearGarminCache ==
    /\ mx_task["pipeline"].pc = "held_m607"
    /\ mx_lock' = Released("pipeline")
    /\ mx_task' = [mx_task EXCEPT !["pipeline"].pc = "ret"]
    /\ UNCHANGED <<mx_acts, mx_store, mx_out>>
    /\ UNCHANGED exceptStore

\* The daemon loop (main.rs:226-230): the next run, 24 hours later.
PipelineAgain ==
    /\ mx_task["pipeline"].pc = "ret"
    /\ mx_task["pipeline"].loop
    /\ mx_task["pipeline"].runs < MaxPipelineRuns
    /\ mx_task' = [mx_task EXCEPT !["pipeline"].pc = "lock_gc26",
                                  !["pipeline"].runs = @ + 1,
                                  !["pipeline"].i = 1]
    /\ UNCHANGED <<mx_acts, mx_lock, mx_store, mx_out>>
    /\ UNCHANGED exceptStore

\* ---- BotController::handle_conversation (bot.rs:177-331)

\* get_recent_activity_analyses(7) (bot.rs:258-268)
HeldGetRecentAnalyses ==
    /\ mx_task["bot"].pc = "held_b259"
    /\ mx_lock' = Released("bot")
    /\ mx_task' = [mx_task EXCEPT !["bot"].pc = "lock_b273"]
    /\ UNCHANGED <<mx_acts, mx_store, mx_out>>
    /\ UNCHANGED exceptStore

\* add_ai_chat_message("user", text) (bot.rs:272-275)
HeldAddUserMessage ==
    /\ mx_task["bot"].pc = "held_b273"
    /\ mx_store' = [mx_store EXCEPT
                      !.chat = Append(@, [role |-> "user", content |-> "text"])]
    /\ mx_lock' = Released("bot")
    /\ mx_task' = [mx_task EXCEPT !["bot"].pc = "lock_b278"]
    /\ UNCHANGED <<mx_acts, mx_out>>
    /\ UNCHANGED exceptStore

\* let history = get_ai_chat_history() (bot.rs:277-280)
HeldGetHistory ==
    /\ mx_task["bot"].pc = "held_b278"
    /\ mx_out' = [mx_out EXCEPT !.history = GetAiChatHistory(mx_store.chat)]
    /\ mx_lock' = Released("bot")
    /\ mx_task' = [mx_task EXCEPT !["bot"].pc = "net_chat"]
    /\ UNCHANGED <<mx_acts, mx_store>>
    /\ UNCHANGED exceptStore

\* ai_client.chat_with_history(&history, Some(&context_str)).await (bot.rs:282-285)
ConversationChat ==
    /\ mx_task["bot"].pc = "net_chat"
    /\ \E ok \in BOOLEAN :
          mx_task' = [mx_task EXCEPT !["bot"].pc = IF ok THEN "lock_b288" ELSE "ret"]
    /\ UNCHANGED <<mx_acts, mx_lock, mx_store, mx_out>>
    /\ UNCHANGED exceptStore

\* add_ai_chat_message("model", &response) (bot.rs:287-290)
HeldAddModelMessage ==
    /\ mx_task["bot"].pc = "held_b288"
    /\ mx_store' = [mx_store EXCEPT
                      !.chat = Append(@, [role |-> "model", content |-> "reply"])]
    /\ mx_lock' = Released("bot")
    /\ mx_task' = [mx_task EXCEPT !["bot"].pc = "ret"]
    /\ UNCHANGED <<mx_acts, mx_out>>
    /\ UNCHANGED exceptStore

\* ---- post_chat (api.rs:476-572)

\* get_coach_briefs() (api.rs:527-532): the guard lives to the end of the statement.
HeldGetCoachBriefs ==
    /\ mx_task["api"].pc = "held_a529"
    /\ mx_lock' = Released("api")
    /\ mx_task' = [mx_task EXCEPT !["api"].pc = "net_post_chat"]
    /\ UNCHANGED <<mx_acts, mx_store, mx_out>>
    /\ UNCHANGED exceptStore

\* ai_client.chat_with_history(&history, None).await (api.rs:546)
PostChatRequest ==
    /\ mx_task["api"].pc = "net_post_chat"
    /\ \E ok \in BOOLEAN :
          mx_task' = [mx_task EXCEPT !["api"].pc = IF ok THEN "lock_a548" ELSE "ret"]
    /\ UNCHANGED <<mx_acts, mx_lock, mx_store, mx_out>>
    /\ UNCHANGED exceptStore

\* add_coach_brief under the lock (api.rs:548-563): the handler returns, with
\* the 500 of a failed insert or with success, and the guard is dropped.
HeldAddCoachBrief ==
    /\ mx_task["api"].pc = "held_a548"
    /\ mx_lock' = Released("api")
    /\ mx_task' = [mx_task EXCEPT !["api"].pc = "ret"]
    /\ UNCHANGED <<mx_acts, mx_store, mx_out>>
    /\ UNCHANGED exceptStore

\* The steps of one task.
StoreStep(t) ==
    \/ LockRequest(t)
    \/ LockGrant(t)
    \/ HeldGetGarminCache(t)
    \/ FetchDataNetwork(t)
    \/ HeldSetGarminCache(t)
    \/ t = "pipeline" /\ \/ HeldInsertActivity
                         \/ HeldGetProgressionHistory
                         \/ AutoAnalyzeTurn
                         \/ AnalysisRequest
                         \/ AnalysisBroadcast
                         \/ SaveAnalysis
                         \/ PipelineCleanup
                         \/ HeldClearAiChat
                         \/ HeldAddBrief
                         \/ PipelineGenerate
                         \/ HeldAddPlanReply
                         \/ PipelineMaterialize
                         \/ HeldClearGarminCache
                         \/ PipelineAgain
    \/ t = "bot" /\ \/ HeldGetRecentAnalyses
                    \/ HeldAddUserMessage
                    \/ HeldGetHistory
                    \/ ConversationChat
                    \/ HeldAddModelMessage
    \/ t = "api" /\ \/ HeldGetCoachBriefs
                    \/ PostChatRequest
                    \/ HeldAddCoachBrief

NextStore == \E t \in StoreTasks : StoreStep(t)

InitStore == StoreInit /\ CleanupIdle /\ PlanIdle /\ CacheIdle /\ LimiterIdle /\ ApiIdle /\ BotIdle /\ NotifierIdle /\ ChatIdle /\ IngestIdle /\ ProfilesIdle /\ FetchIdle /\ AuthIdle /\ PostChatIdle /\ ExtractIdle /\ BuildIdle /\ ResolveIdle /\ ProgressionIdle /\ MorningIdle /\ ConversationIdle /\ CloudIdle

SpecStore == InitStore /\ [][NextStore]_vars

\* The network calls return and the scheduler runs every task that can run.
SpecStoreLive == SpecStore /\ \A t \in StoreTasks : WF_vars(StoreStep(t))

\* ---- C33: no network I/O under the lock

\* The task is in a network request (the cloud, the LLM, the IM gateway).
InNetworkCall(t) ==
    mx_task[t].pc \in {"net_fetch", "net_analysis", "net_analysis_broadcast", "net_cleanup",
                       "net_generate", "net_materialize", "net_chat", "net_post_chat"}

\* C33: a task that is in a network request does not hold the database lock.
C33_NoNetworkUnderStoreLock ==
    \A t \in StoreTasks : InNetworkCall(t) => mx_lock.owner # t

\* ---- C35: an activity is auto-analyzed at most once

\* The activity of the current turn of the auto-analyze loop.
CurrentActivity == mx_acts[mx_task["pipeline"].i]

C39_HistoryEndsWithUserMessage ==
    mx_task["bot"].pc = "net_chat" =>
        /\ mx_out.history # NoHistory
        /\ mx_out.history # <<>>
        /\ mx_out.history[Len(mx_out.history)] = [role |-> "user", content |-> "text"]

\* ---- C40: the store mutex does not deadlock

\* C40: no task asks for the database lock while it holds it, every
\* acquisition is followed by a release, and every task that waits for the
\* lock gets it, given that the network calls of the lock holders return and
\* every task that can run is run.
C40_StoreMutexNeverDeadlocks ==
    /\ [](\A t \in StoreTasks :
              (mx_task[t].waiting \/ mx_task[t].pc \in DOMAIN HeldOf) => mx_lock.owner # t)
    /\ \A t \in StoreTasks : (mx_lock.owner = t) ~> (mx_lock.owner # t)
    /\ \A t \in StoreTasks : mx_task[t].waiting ~> (mx_lock.owner = t)

\* C40 witness: the bot waits for the lock that the pipeline holds during the
\* LLM request of the auto-analyze block.
C40_Witness ==
    /\ mx_lock.owner = "pipeline"
    /\ mx_task["pipeline"].pc = "net_analysis"
    /\ mx_task["bot"].waiting
    /\ mx_lock.queue = <<"bot">>

\* ==== morning notifier on the clock (bot.rs start_morning_notifier) =========
\* The loop of start_morning_notifier with the wall clock in seconds: one
\* evaluation of the trigger, the snapshot fetch and broadcast it may start,
\* and the 60-second sleep.  A sleep lasts at least its duration, and the
\* evaluation, the fetch and the timer add time of their own.

\* tokio::time::Duration::from_secs(60), the sleep of the loop.
MorningSleepSecs == 60

\* Most seconds by which one turn of the loop exceeds its sleep.
MaxLag == 1

\* The seconds of the day in which the task is spawned (06:58:00 to 06:58:59)
\* and the second at which the observation ends (07:02:00).
MorningFirst == 25080
MorningSpawnLast == 25139
MorningLast == 25320

\* now.format("%Y-%m-%d") of the observed day.
MorningDay == "2026-03-01"

\* Two digits of a clock field.
Pad2(n) == IF n < 10 THEN "0" \o NatToStr(n) ELSE NatToStr(n)

\* now.format("%H:%M") of a second of the day.
FormatHM(s) == Pad2(s \div 3600) \o ":" \o Pad2((s % 3600) \div 60)

MorningInit ==
    /\ mn_now \in MorningFirst..MorningSpawnLast
    /\ \E planned \in BOOLEAN :
           mn_loop = [pc |-> "check", last_sent_date |-> "", planned |-> planned,
                      fetch_failed |-> FALSE, sent |-> <<>>]

\* current_time == *time_str && last_sent_date != today
MorningCheck ==
    /\ mn_loop.pc = "check"
    /\ mn_loop' = [mn_loop EXCEPT !.pc =
                       IF FormatHM(mn_now) = morning_message_time
                          /\ mn_loop.last_sent_date # MorningDay
                       THEN "fetch" ELSE "sleep"]
    /\ UNCHANGED mn_now
    /\ UNCHANGED exceptMorning

\* fetch_data() returned Ok(data): the broadcast when today has workouts, then
\* last_sent_date = today.
MorningFetchOk ==
    /\ mn_loop.pc = "fetch"
    /\ \E lag \in 0..MaxLag :
           /\ mn_now' = mn_now + lag
           /\ mn_loop' = [mn_loop EXCEPT
                  !.pc = "sleep",
                  !.last_sent_date = MorningDay,
                  !.sent = IF mn_loop.planned THEN Append(@, FormatHM(mn_now)) ELSE @]
    /\ UNCHANGED exceptMorning

\* fetch_data() returned Err(e): logged, last_sent_date is kept.
MorningFetchErr ==
    /\ mn_loop.pc = "fetch"
    /\ \E lag \in 0..MaxLag :
           /\ mn_now' = mn_now + lag
           /\ mn_loop' = [mn_loop EXCEPT !.pc = "sleep", !.fetch_failed = TRUE]
    /\ UNCHANGED exceptMorning

\* tokio::time::sleep(60 s): the task resumes no earlier than 60 s later.
MorningSleep ==
    /\ mn_loop.pc = "sleep"
    /\ \E lag \in 0..MaxLag :
           /\ mn_now + MorningSleepSecs + lag <= MorningLast
           /\ mn_now' = mn_now + MorningSleepSecs + lag
    /\ mn_loop' = [mn_loop EXCEPT !.pc = "check"]
    /\ UNCHANGED exceptMorning

NextMorning == MorningCheck \/ MorningFetchOk \/ MorningFetchErr \/ MorningSleep

InitMorning == MorningInit /\ CleanupIdle /\ PlanIdle /\ CacheIdle /\ LimiterIdle /\ ApiIdle /\ BotIdle /\ NotifierIdle /\ ChatIdle /\ IngestIdle /\ ProfilesIdle /\ FetchIdle /\ AuthIdle /\ PostChatIdle /\ ExtractIdle /\ BuildIdle /\ ResolveIdle /\ ProgressionIdle /\ StoreIdle /\ ConversationIdle /\ CloudIdle

SpecMorning == InitMorning /\ [][NextMorning]_vars

\* ---- claim side ----

\* The clock of the running loop has left the configured minute behind.
PastConfiguredMinute ==
    /\ mn_loop.pc # "idle"
    /\ FormatHM(mn_now) # morning_message_time
    /\ \E s \in MorningFirst..mn_now : FormatHM(s) = morning_message_time

\* C34: the morning notifier broadcasts today's planned workouts once on every
\* day that has planned workouts, at the configured time: while the process
\* runs and the snapshot fetch succeeds the loop evaluates the trigger during
\* the configured minute and cannot pass over it, and on a day without planned
\* workouts it sends nothing.
C34_MorningBroadcastEveryPlannedDay ==
    /\ ~mn_loop.planned => mn_loop.sent = <<>>
    /\ \A i \in 1..Len(mn_loop.sent) : mn_loop.sent[i] = morning_message_time
    /\ Len(mn_loop.sent) <= 1
    /\ (PastConfiguredMinute /\ mn_loop.planned /\ ~mn_loop.fetch_failed)
           => Len(mn_loop.sent) = 1

\* ==== conversational reply (bot.rs BotController::handle_conversation) ======
\* What handle_conversation does with the result of chat_with_history: the
\* scan of the answer for a fenced json block, and the text it returns to the
\* user.  The backquote is written as the apostrophe, as in extract_json_block.

RECURSIVE CountElements(_, _)
\* The number of elements of a JSON array whose first element starts at i.
CountElements(s, i) ==
    LET j == SkipWs(s, ParseValue(s, i))
    IN  IF Ch(s, j) = "," THEN 1 + CountElements(s, SkipWs(s, j + 1)) ELSE 1

\* serde_json::from_str::<Vec<serde_json::Value>>(&json_str): the number of
\* elements of the array, -1 when the text is not a JSON array.
VecLen(json_str) ==
    LET i == SkipWs(json_str, 1)
    IN  IF ~ParsesAsJson(json_str) \/ Ch(json_str, i) # "[" THEN -1
        ELSE IF Ch(json_str, SkipWs(json_str, i + 1)) = "]" THEN 0
        ELSE CountElements(json_str, SkipWs(json_str, i + 1))

\* The workouts the scan of the answer loops over (bot.rs:293-300).
ScannedWorkouts(response) ==
    IF extract_json_block(response).ok /\ VecLen(extract_json_block(response).v) > 0
       THEN VecLen(extract_json_block(response).v)
       ELSE 0

\* The place of the closing marker in the text from the opening fence on:
\* find(fence + "\n"), or else find(fence) (bot.rs:305-307).
EndIdx(rest) ==
    IF Find(rest, Fence \o "\n") # 0 THEN Find(rest, Fence \o "\n") ELSE Find(rest, Fence)

\* The response without its places lo..hi.
RemoveRange(response, lo, hi) ==
    SubSeq(response, 1, lo - 1) \o SubSeq(response, hi + 1, Len(response))

\* The cut of the block whose opening fence is at start_idx and whose closing
\* marker is at end_idx of the rest: full_end is the place after the marker's
\* three characters, and a newline there is removed too (bot.rs:309-317).
CutBlock(response, start_idx, end_idx) ==
    IF start_idx + end_idx + 1 < Len(response)
       /\ Ch(response, start_idx + end_idx + 2) = "\n"
       THEN RemoveRange(response, start_idx, start_idx + end_idx + 2)
       ELSE RemoveRange(response, start_idx, start_idx + end_idx + 1)

\* clean_response (bot.rs:303-323)
clean_response(response) ==
    LET start_idx == Find(response, Fence \o "json")
        rest == SubSeq(response, start_idx, Len(response))
    IN  IF start_idx = 0 THEN response
        ELSE IF EndIdx(rest) = 0 THEN response
        ELSE Trim(CutBlock(response, start_idx, EndIdx(rest)))

\* The JSON texts of a block: one spec, two specs, no spec, one spec that is
\* not wrapped in an array, and a text that is not JSON.
ReplyBlocks ==
    {"[{\"name\":\"A\"}]", "[{\"name\":\"A\"}, {\"name\":\"B\"}]", "[]", "{\"name\":\"A\"}",
     "tomorrow"}

\* Where the block stands in the answer.
ReplyShapes == {"mid", "end", "endnl", "start", "only", "inline", "two", "open"}

JsonFence(block) == Fence \o "json\n" \o block \o "\n" \o Fence

ReplyOf(block, shape) ==
    CASE shape = "mid" -> "Sure.\n" \o JsonFence(block) \o "\nEnjoy!"
      [] shape = "end" -> "Sure.\n" \o JsonFence(block)
      [] shape = "endnl" -> "Sure.\n" \o JsonFence(block) \o "\n"
      [] shape = "start" -> JsonFence(block) \o "\nEnjoy!"
      [] shape = "only" -> JsonFence(block)
      [] shape = "inline" -> "Sure. " \o Fence \o "json " \o block \o " " \o Fence \o " Enjoy!"
      [] shape = "two" -> "A:\n" \o JsonFence(block) \o "\nB:\n" \o JsonFence(block) \o "\nEnjoy!"
      [] shape = "open" -> "Sure.\n" \o Fence \o "json\n" \o block

\* Answers without a json fence.
PlainReplies == {"Rest today.", "", "Write ''' around code.", "[{\"name\":\"A\"}]"}

ConversationReplies ==
    {ReplyOf(b, s) : b \in ReplyBlocks, s \in ReplyShapes} \cup PlainReplies

ConversationInit ==
    /\ cv_reply = [ok |-> FALSE, text |-> ""]
    /\ cv_task = [pc |-> "chat", built |-> 0, created |-> 0, sent |-> ""]

\* chat_with_history returned Ok(response); the answer is stored in the chat
\* log (bot.rs:282-290).
ConversationReplyOk ==
    /\ cv_task.pc = "chat"
    /\ \E text \in ConversationReplies : cv_reply' = [ok |-> TRUE, text |-> text]
    /\ cv_task' = [cv_task EXCEPT !.pc = "scan"]
    /\ UNCHANGED exceptConversation

\* chat_with_history returned Err(e): the error text is the reply (bot.rs:327).
ConversationReplyErr ==
    /\ cv_task.pc = "chat"
    /\ cv_task' = [cv_task EXCEPT !.pc = "done",
                                  !.sent = "My coaching brain failed to connect: e"]
    /\ UNCHANGED cv_reply
    /\ UNCHANGED exceptConversation

\* The scan for a json block (bot.rs:292-301): every element of the array is
\* given to build_workout_payload, whose payload is dropped; nothing is sent
\* to the cloud.
ConversationScan ==
    /\ cv_task.pc = "scan"
    /\ cv_task' = [cv_task EXCEPT !.pc = "strip",
                                  !.built = @ + ScannedWorkouts(cv_reply.text)]
    /\ UNCHANGED cv_reply
    /\ UNCHANGED exceptConversation

\* The text returned to the user (bot.rs:303-325).
ConversationStrip ==
    /\ cv_task.pc = "strip"
    /\ cv_task' = [cv_task EXCEPT !.pc = "done", !.sent = clean_response(cv_reply.text)]
    /\ UNCHANGED cv_reply
    /\ UNCHANGED exceptConversation

NextConversation ==
    ConversationReplyOk \/ ConversationReplyErr \/ ConversationScan \/ ConversationStrip

InitConversation == ConversationInit /\ CleanupIdle /\ PlanIdle /\ CacheIdle /\ LimiterIdle /\ ApiIdle /\ BotIdle /\ NotifierIdle /\ ChatIdle /\ IngestIdle /\ ProfilesIdle /\ FetchIdle /\ AuthIdle /\ PostChatIdle /\ ExtractIdle /\ BuildIdle /\ ResolveIdle /\ ProgressionIdle /\ StoreIdle /\ MorningIdle /\ CloudIdle

SpecConversation == InitConversation /\ [][NextConversation]_vars

\* ---- claim side ----

\* The handler has answered an LLM reply.
Answered == cv_task.pc = "done" /\ cv_reply.ok

\* C36: when the reply holds a fenced json block with workout specs, the
\* workouts of the block are created in the cloud, once each; when the reply
\* has no fenced json block no workout is created.
C36_ConversationMaterializes ==
    Answered =>
        /\ (HasFencedBlock(cv_reply.text) /\ VecLen(Trim(FencedBlock(cv_reply.text))) > 0) =>
               cv_task.created = VecLen(Trim(FencedBlock(cv_reply.text)))
        /\ ~HasFencedBlock(cv_reply.text) => cv_task.created = 0

\* The reply without its first fenced json block, from the opening fence
\* through the closing fence.
WithoutBlock(markdown) ==
    RemoveRange(markdown, Least(FenceStarts(markdown)),
                Least(FenceEnds(markdown, Least(FenceStarts(markdown)) + Len(Fence) + 4))
                   + Len(Fence) - 1)

\* Two texts are the same up to white space.
SameText(a, b) ==
    Replace(Replace(a, "\n", ""), " ", "") = Replace(Replace(b, "\n", ""), " ", "")

\* C37: when the reply holds a fenced json block, the text sent to the user
\* is the reply with its first fenced json block removed, from the opening
\* fence through the closing fence, and the rest of the text kept (up to the
\* white space around the cut), wherever the block stands.
C37_StripsFirstJsonBlock ==
    (Answered /\ HasFencedBlock(cv_reply.text)) =>
        SameText(cv_task.sent, WithoutBlock(cv_reply.text))

\* ==== the cloud's side of the materializer (main.rs:516-595) ================
\* One turn of the materializer loop as the cloud sees it: every POST that
\* connectapi_post sends, whether the cloud carried it out, and what the
\* cloud holds for the plan spec afterwards.

\* Whether the cloud has carried out a request that got the answer resp: it
\* has for a 2xx answer and has not for another status; when the transport
\* failed (req.send() returned Err) the request or only its answer was lost.
CloudApplied(resp) == IF resp.kind = "transport" THEN BOOLEAN ELSE {IsSuccess(resp.status)}

\* The answers to a schedule POST, with the transport error every request can meet.
CloudScheduleResponses == ScheduleResponses \cup {TransportErr("connection reset")}

CloudInit ==
    /\ \E dated \in BOOLEAN :
          cd_call = [pc |-> "create", attempt |-> 1, workout_id |-> NoneNum, dated |-> dated]
    /\ cd_cloud = [workouts |-> <<>>, entries |-> 0]

\* Where the turn goes once a create call has returned res (main.rs:526-570):
\* to the robust create after a strict call whose error text holds 400, to the
\* schedule call with a workout id and a date, else to its end.
CloudAfterCreate(res) ==
    LET id == IF res.ok /\ IsI64(Get(res.value, "workoutId"))
                 THEN Some(Get(res.value, "workoutId").v) ELSE NoneNum
    IN  [cd_call EXCEPT
           !.attempt = 1,
           !.workout_id = id,
           !.pc = IF ~res.ok /\ cd_call.pc = "create" /\ Contains(res.err, "400")
                     THEN "create_robust"
                  ELSE IF id.some /\ cd_call.dated THEN "schedule"
                  ELSE "done"]

\* One turn of the retry loop of connectapi_post("/workout-service/workout").
CloudCreateAttempt ==
    /\ cd_call.pc \in {"create", "create_robust"}
    /\ \E resp \in CreateResponses :
          /\ \E applied \in CloudApplied(resp) :
                cd_cloud' = [cd_cloud EXCEPT !.workouts =
                               IF applied
                                  THEN Append(@, IF cd_call.pc = "create" THEN "strict" ELSE "robust")
                                  ELSE @]
          /\ cd_call' = IF AttemptResult("POST", cd_call.attempt, resp) = Pending
                           THEN [cd_call EXCEPT !.attempt = @ + 1]
                           ELSE CloudAfterCreate(AttemptResult("POST", cd_call.attempt, resp))
    /\ UNCHANGED exceptCloud

\* `self.refresh_oauth2().await?` fails at the top of a turn of the retry
\* loop: the call returns the error, no POST is sent.
CloudCreateRefreshFails ==
    /\ cd_call.pc \in {"create", "create_robust"}
    /\ cd_call' = CloudAfterCreate(Err(RefreshErrText))
    /\ UNCHANGED cd_cloud
    /\ UNCHANGED exceptCloud

\* One turn of the retry loop of connectapi_post("/workout-service/schedule/<id>").
CloudScheduleAttempt ==
    /\ cd_call.pc = "schedule"
    /\ \E resp \in CloudScheduleResponses :
          /\ \E applied \in CloudApplied(resp) :
                cd_cloud' = [cd_cloud EXCEPT !.entries = IF applied THEN @ + 1 ELSE @]
          /\ cd_call' = IF AttemptResult("POST", cd_call.attempt, resp) = Pending
                           THEN [cd_call EXCEPT !.attempt = @ + 1]
                           ELSE [cd_call EXCEPT !.attempt = 1, !.pc = "done"]
    /\ UNCHANGED exceptCloud

NextCloud == CloudCreateAttempt \/ CloudCreateRefreshFails \/ CloudScheduleAttempt

InitCloud == CloudInit /\ CleanupIdle /\ PlanIdle /\ CacheIdle /\ LimiterIdle /\ ApiIdle /\ BotIdle /\ NotifierIdle /\ ChatIdle /\ IngestIdle /\ ProfilesIdle /\ FetchIdle /\ AuthIdle /\ PostChatIdle /\ ExtractIdle /\ BuildIdle /\ ResolveIdle /\ ProgressionIdle /\ StoreIdle /\ MorningIdle /\ ConversationIdle

SpecCloud == InitCloud /\ [][NextCloud]_vars

\* C38: for one plan spec a pipeline run creates at most one workout and at
\* most one calendar entry in the cloud, also when a POST fails in transport
\* after the cloud carried it out and is sent again, and when the robust
\* create follows the strict one.
C38_OneWorkoutOneEntryPerSpec ==
    /\ Len(cd_cloud.workouts) <= 1
    /\ cd_cloud.entries <= 1

====
